---- MODULE Spec2Model ----
(***************************************************************************)
(* A model of the staff classes of MusicStaffPackage: RhythmStaff (the     *)
(* bar/beat allocation engine) and MusicStaff (the pitch staff with its    *)
(* index-addressed entry list).                                           *)
(*                                                                         *)
(* Units.  The TypeScript code counts beats in floating point, in steps of *)
(* a sixteenth note (0.25).  Every such value is exact in binary floating  *)
(* point, so the model holds each beat count as the integer number of      *)
(* sixteenths (a quarter note is 4) and each horizontal length of the      *)
(* rhythm staff as the integer number of quarter pixels (a pixel is 4).    *)
(* The music staff's lengths are whole pixels.                             *)
(***************************************************************************)
EXTENDS Integers, Sequences, FiniteSets, TLC

VARIABLES
    staffKind,          \* the class of the instance: "rhythm" | "music" | "scrolling"
    topNumber,          \* RhythmStaff options.topNumber
    barsCount,          \* RhythmStaff options.barsCount
    quarterNoteSpacing, \* RhythmStaff.quarterNoteSpacing (whole pixels)
    maxBeatCount,       \* RhythmStaff.maxBeatCount (sixteenths)
    currentBeatCount,   \* RhythmStaff.currentBeatCount (sixteenths)
    noteCursorX,        \* noteCursorX of the instance
    noteEntries,        \* noteEntries of the instance
    notesLayer,         \* children of the renderer's "notes" layer, in document order
    noteBuffer,         \* ScrollingStaff.noteBuffer
    currentBeatUICount, \* RhythmStaff.currentBeatUICount (whole beats)
    currentBeatUIXPos,  \* RhythmStaff.currentBeatUIXPos (quarter pixels)
    currentBeatUIElement, \* the playhead rectangle: "null" | "shown" | "hidden"
    ret                 \* the last call made on the instance and how it ended

vars == <<staffKind, topNumber, barsCount, quarterNoteSpacing, maxBeatCount,
          currentBeatCount, noteCursorX, noteEntries, notesLayer, noteBuffer,
          currentBeatUICount, currentBeatUIXPos, currentBeatUIElement, ret>>

config == <<staffKind, topNumber, barsCount, quarterNoteSpacing, maxBeatCount>>

\* The playhead of RhythmStaff.
playhead == <<currentBeatUICount, currentBeatUIXPos, currentBeatUIElement>>

(***************************************************************************)
(* Bounds of the model.                                                    *)
(***************************************************************************)
\* A draw or change call is followed only while the entry list is shorter than this.
MaxEntries == 2
\* Largest noteCount handed to drawBeamedNotes, besides the documented example.
MaxBeamCount == 3

\* Longest chord handed to renderChord on its own.
MaxChordLen == 5

\* Highest octave of the tokens handed to the parser on its own.
MaxOctave == 11

\* Largest distance of a ScrollingStaff's cursor from 0 at which notes are
\* still queued; the cursor is left to drift by queueNotes.
MaxCursorX == 60

\* Largest number of entries queued on a ScrollingStaff between two clears.
MaxQueued == 7

(***************************************************************************)
(* Program constants.                                                      *)
(***************************************************************************)
BAR_SPACING == 12
STAFF_RIGHT_PADDING == 1
DefaultWidth == 300
\* constants.ts is not among the sources; the value only sets the scale of x.
NOTE_LAYER_START_X == 38

\* Beat value of each duration, in sixteenths (whole=4 beats ... sixteenth=0.25).
durationBeatValueMap == [w |-> 16, h |-> 8, q |-> 4, e |-> 2, s |-> 1]

\* Sixteenths in one beat, and quarter pixels in one pixel.
BeatUnit == durationBeatValueMap["q"]

\* Where the playhead starts, in quarter pixels.
CURRENT_BEAT_UI_START_X_POS == NOTE_LAYER_START_X * BeatUnit

\* The duration-only grammar: w | h | q | e, anything else is a parse error.
parseDurationNoteString(noteString) ==
    IF noteString \in {"w", "h", "q", "e"}
    THEN [ok |-> TRUE, duration |-> noteString]
    ELSE [ok |-> FALSE, duration |-> "w"]

\* SVGRenderer.commitElementsToDOM: appends the groups to the layer, in order.
commitElementsToDOM(layer, groups) == layer \o groups

\* Math.min of two numbers.
Min(a, b) == IF a <= b THEN a ELSE b

\* Math.round(x / y) for x >= 0, y > 0.
MathRoundDiv(x, y) == (2 * x + y) \div (2 * y)

(***************************************************************************)
(* RhythmStaff.                                                            *)
(***************************************************************************)
\* Sixteenths in one bar.
BarBeats == topNumber * BeatUnit

\* The constructor's spacing arithmetic: quarterNoteSpacing for a width.
ConstructorQuarterNoteSpacing(width, top, bars) ==
    LET notesLayerWidth ==
            (width - NOTE_LAYER_START_X)
            - (IF bars > 1 THEN (bars - 1) * BAR_SPACING ELSE 0)
            - STAFF_RIGHT_PADDING
    IN  MathRoundDiv(notesLayerWidth, bars * top)

\* A drawn group of the rhythm staff: its class, glyph, the numbers of
\* noteheads, stem lines and beam rects in it, and the x of its transform.
RhythmGroup(tag, glyph, heads, stems, beams, x) ==
    [tag |-> tag, glyph |-> glyph, heads |-> heads, stems |-> stems,
     beams |-> beams, x |-> x]

\* The fields of the instance a draw call works on, with the call's locals.
\* newBars counts the calls of handleNewBar the draw call makes.
Self ==
    [beat |-> currentBeatCount, cursor |-> noteCursorX, entries |-> noteEntries,
     layer |-> notesLayer, noteGroups |-> <<>>, restGroups |-> <<>>,
     error |-> "none", failedAt |-> 0, fills |-> <<>>, drawn |-> 0, created |-> 0,
     newBars |-> 0]

handleNewBar(s) ==
    [s EXCEPT !.cursor = @ + BAR_SPACING * BeatUnit, !.newBars = @ + 1]

checkAndCreateNewBar(s) ==
    LET isBarFull == s.beat > 0 /\ (s.beat % BarBeats = 0)
        isNotLastBar == s.beat < maxBeatCount
    IN  IF isBarFull /\ isNotLastBar THEN handleNewBar(s) ELSE s

RECURSIVE createRemainingRests(_, _)
createRemainingRests(s, beatsLeft) ==
    IF beatsLeft > 0
    THEN LET glyph ==
                 IF beatsLeft - durationBeatValueMap["h"] >= 0 THEN "REST_HALF"
                 ELSE IF beatsLeft - durationBeatValueMap["q"] >= 0 THEN "REST_QUARTER"
                 ELSE "REST_EIGHTH"
             beatValue ==
                 IF beatsLeft - durationBeatValueMap["h"] >= 0 THEN durationBeatValueMap["h"]
                 ELSE IF beatsLeft - durationBeatValueMap["q"] >= 0 THEN durationBeatValueMap["q"]
                 ELSE durationBeatValueMap["e"]
             newGroup == RhythmGroup("rest", glyph, 0, 0, 0, s.cursor)
         IN  createRemainingRests(
                 [s EXCEPT !.beat = @ + beatValue,
                           !.cursor = @ + beatValue * quarterNoteSpacing,
                           !.restGroups = Append(@, newGroup),
                           !.created = @ + 1],
                 beatsLeft - beatValue)
    ELSE s

\* restGroups is left empty where the code returns null.  fills logs, for each
\* overflow, the remainder that was to be filled and the beat count after it.
checkAndFillBarWithRests(s, beatValue) ==
    LET remainingBeatsInBar == BarBeats - (s.beat % BarBeats)
        s0 == [s EXCEPT !.restGroups = <<>>]
    IN  IF beatValue > remainingBeatsInBar
        THEN LET filled == createRemainingRests(s0, remainingBeatsInBar)
             IN  [handleNewBar(filled) EXCEPT
                     !.fills = Append(@, [remaining |-> remainingBeatsInBar,
                                          beatValue |-> beatValue,
                                          start |-> s.beat,
                                          after |-> filled.beat,
                                          rests |-> filled.restGroups])]
        ELSE s0

\* ThrowFromBatch without the commit of the groups drawn so far.
ThrowFromBatch_NoCommit(s, error, i) ==
    [s EXCEPT !.error = error, !.failedAt = i]

\* The catch block and the max-beat branch: commit what was drawn, then throw.
ThrowFromBatch(s, error, i) ==
    [s EXCEPT !.layer = IF Len(s.noteGroups) > 0
                        THEN commitElementsToDOM(@, s.noteGroups) ELSE @,
              !.error = error, !.failedAt = i]

noteGlyph == [w |-> "NOTE_HEAD_WHOLE", h |-> "NOTE_HEAD_HALF",
              q |-> "NOTE_HEAD_QUARTER", e |-> "EIGHTH_NOTE"]

\* RhythmStaff.renderNote: the notehead glyph, and a stem line for h, q and e.
RhythmStaff_renderNote(duration, x) ==
    RhythmGroup("note", noteGlyph[duration], 1,
                IF duration = "w" THEN 0 ELSE 1, 0, x)

restGlyph == [w |-> "REST_WHOLE", h |-> "REST_HALF",
              q |-> "REST_QUARTER", e |-> "REST_EIGHTH"]

renderRest(duration, x) == RhythmGroup("rest", restGlyph[duration], 0, 0, 0, x)

\* RhythmStaff_drawNoteToken with the filler rests left out of noteEntries.
drawNoteToken_FillersUnrecorded(s, durationString) ==
    LET beatValue == durationBeatValueMap[durationString]
        s1 == checkAndCreateNewBar(s)
        s2 == checkAndFillBarWithRests(s1, beatValue)
        s3 == [s2 EXCEPT !.noteGroups = @ \o s2.restGroups]
        noteGroup == RhythmStaff_renderNote(durationString, s3.cursor)
    IN  [s3 EXCEPT !.cursor = @ + quarterNoteSpacing * beatValue,
                   !.beat = @ + beatValue,
                   !.noteGroups = Append(@, noteGroup),
                   !.entries = Append(@, noteGroup),
                   !.drawn = @ + 1,
                   !.created = @ + 1]

\* One pass of drawNote's loop body for an accepted token.
RhythmStaff_drawNoteToken(s, durationString) ==
    LET beatValue == durationBeatValueMap[durationString]
        s1 == checkAndCreateNewBar(s)
        s2 == checkAndFillBarWithRests(s1, beatValue)
        s3 == [s2 EXCEPT !.noteGroups = @ \o s2.restGroups,
                         !.entries = @ \o s2.restGroups]
        noteGroup == RhythmStaff_renderNote(durationString, s3.cursor)
    IN  [s3 EXCEPT !.cursor = @ + quarterNoteSpacing * beatValue,
                   !.beat = @ + beatValue,
                   !.noteGroups = Append(@, noteGroup),
                   !.entries = Append(@, noteGroup),
                   !.drawn = @ + 1,
                   !.created = @ + 1]

\* RhythmStaff_drawNoteLoop with the capacity test written > instead of >=.
RECURSIVE drawNoteLoop_LateCapacityTest(_, _, _)
drawNoteLoop_LateCapacityTest(s, notes, i) ==
    IF i > Len(notes)
    THEN [s EXCEPT !.layer = commitElementsToDOM(@, s.noteGroups)]
    ELSE LET parsed == parseDurationNoteString(notes[i])
         IN  IF ~parsed.ok THEN ThrowFromBatch(s, "ParseError", i)
             ELSE IF s.beat > maxBeatCount THEN ThrowFromBatch(s, "MaxBeatError", i)
             ELSE drawNoteLoop_LateCapacityTest(
                      RhythmStaff_drawNoteToken(s, parsed.duration), notes, i + 1)

\* RhythmStaff_drawNoteLoop with the capacity test made for the first member only.
RECURSIVE drawNoteLoop_CapacityTestOnce(_, _, _)
drawNoteLoop_CapacityTestOnce(s, notes, i) ==
    IF i > Len(notes)
    THEN [s EXCEPT !.layer = commitElementsToDOM(@, s.noteGroups)]
    ELSE LET parsed == parseDurationNoteString(notes[i])
         IN  IF ~parsed.ok THEN ThrowFromBatch(s, "ParseError", i)
             ELSE IF i = 1 /\ s.beat >= maxBeatCount
                  THEN ThrowFromBatch(s, "MaxBeatError", i)
             ELSE drawNoteLoop_CapacityTestOnce(
                      RhythmStaff_drawNoteToken(s, parsed.duration), notes, i + 1)

RECURSIVE RhythmStaff_drawNoteLoop(_, _, _)
RhythmStaff_drawNoteLoop(s, notes, i) ==
    IF i > Len(notes)
    THEN [s EXCEPT !.layer = commitElementsToDOM(@, s.noteGroups)]
    ELSE LET parsed == parseDurationNoteString(notes[i])
         IN  IF ~parsed.ok THEN ThrowFromBatch(s, "ParseError", i)
             ELSE IF s.beat >= maxBeatCount THEN ThrowFromBatch(s, "MaxBeatError", i)
             ELSE RhythmStaff_drawNoteLoop(RhythmStaff_drawNoteToken(s, parsed.duration), notes, i + 1)

\* A call's argument: one string, or an array of strings.
normalizedNotesArray(notes) == IF notes.isArray THEN notes.value ELSE <<notes.value>>

RhythmStaff_drawNote(s, notes) == RhythmStaff_drawNoteLoop(s, normalizedNotesArray(notes), 1)

\* drawRestToken without the call of checkAndCreateNewBar.
drawRestToken_NoNewBar(s, durationString) ==
    LET beatValue == durationBeatValueMap[durationString]
        spacing == beatValue * quarterNoteSpacing
        s2 == checkAndFillBarWithRests(s, beatValue)
        s3 == [s2 EXCEPT !.noteGroups = @ \o s2.restGroups,
                         !.entries = @ \o s2.restGroups]
        restGroup == renderRest(durationString, s3.cursor)
    IN  [s3 EXCEPT !.cursor = @ + spacing,
                   !.beat = @ + beatValue,
                   !.noteGroups = Append(@, restGroup),
                   !.entries = Append(@, restGroup),
                   !.drawn = @ + 1]

\* One pass of drawRest's loop body after the max-beat check; restGroup was
\* created before the check.
drawRestToken(s, durationString) ==
    LET beatValue == durationBeatValueMap[durationString]
        spacing == beatValue * quarterNoteSpacing
        s1 == checkAndCreateNewBar(s)
        s2 == checkAndFillBarWithRests(s1, beatValue)
        s3 == [s2 EXCEPT !.noteGroups = @ \o s2.restGroups,
                         !.entries = @ \o s2.restGroups]
        restGroup == renderRest(durationString, s3.cursor)
    IN  [s3 EXCEPT !.cursor = @ + spacing,
                   !.beat = @ + beatValue,
                   !.noteGroups = Append(@, restGroup),
                   !.entries = Append(@, restGroup),
                   !.drawn = @ + 1]

RECURSIVE drawRestLoop(_, _, _)
drawRestLoop(s, rests, i) ==
    IF i > Len(rests)
    THEN [s EXCEPT !.layer = commitElementsToDOM(@, s.noteGroups)]
    ELSE LET parsed == parseDurationNoteString(rests[i])
             created == [s EXCEPT !.created = @ + 1]
         IN  IF ~parsed.ok THEN ThrowFromBatch(s, "ParseError", i)
             ELSE IF s.beat >= maxBeatCount
                  THEN ThrowFromBatch(created, "MaxBeatError", i)
             ELSE drawRestLoop(drawRestToken(created, parsed.duration), rests, i + 1)

drawRest(s, rests) == drawRestLoop(s, normalizedNotesArray(rests), 1)

\* The for loop of drawBeamedNotes: i < Math.min(noteCount, remaining / beatValue).
RECURSIVE beamLoop(_, _, _, _, _)
beamLoop(s, i, noteCount, remainingBeatsInBar, beatValue) ==
    IF i < noteCount /\ i * beatValue < remainingBeatsInBar
    THEN beamLoop([s EXCEPT !.beat = @ + beatValue, !.drawn = @ + 1],
                  i + 1, noteCount, remainingBeatsInBar, beatValue)
    ELSE s

\* drawBeamedNotes with the cursor advanced by the width of the notes asked for.
drawBeamedNotes_RequestedWidth(s, note, noteCount) ==
    IF noteCount < 2 THEN [s EXCEPT !.error = "StateError"]
    ELSE IF s.beat >= maxBeatCount THEN [s EXCEPT !.error = "MaxBeatError"]
    ELSE LET durationString ==
                 IF note = "s" THEN "s" ELSE parseDurationNoteString(note).duration
             s1 == checkAndCreateNewBar(s)
             beatValue == durationBeatValueMap[durationString]
             spacingAmount == beatValue * quarterNoteSpacing
             remainingBeatsInBar == BarBeats - (s1.beat % BarBeats)
             s2 == beamLoop(s1, 0, noteCount, remainingBeatsInBar, beatValue)
             localX == noteCount * spacingAmount
             beamedGroup ==
                 RhythmGroup("beamed-note", "NOTE_HEAD_QUARTER", s2.drawn, s2.drawn,
                             IF note = "s" THEN 2 ELSE 1, s1.cursor)
         IN  [s2 EXCEPT !.cursor = @ + localX,
                        !.created = @ + 1,
                        !.entries = Append(@, beamedGroup),
                        !.layer = commitElementsToDOM(@, <<beamedGroup>>)]

drawBeamedNotes(s, note, noteCount) ==
    IF noteCount < 2 THEN [s EXCEPT !.error = "StateError"]
    ELSE IF s.beat >= maxBeatCount THEN [s EXCEPT !.error = "MaxBeatError"]
    ELSE LET durationString ==
                 IF note = "s" THEN "s" ELSE parseDurationNoteString(note).duration
             s1 == checkAndCreateNewBar(s)
             beatValue == durationBeatValueMap[durationString]
             spacingAmount == beatValue * quarterNoteSpacing
             remainingBeatsInBar == BarBeats - (s1.beat % BarBeats)
             s2 == beamLoop(s1, 0, noteCount, remainingBeatsInBar, beatValue)
             localX == s2.drawn * spacingAmount
             beamedGroup ==
                 RhythmGroup("beamed-note", "NOTE_HEAD_QUARTER", s2.drawn, s2.drawn,
                             IF note = "s" THEN 2 ELSE 1, s1.cursor)
         IN  [s2 EXCEPT !.cursor = @ + localX,
                        !.created = @ + 1,
                        !.entries = Append(@, beamedGroup),
                        !.layer = commitElementsToDOM(@, <<beamedGroup>>)]

(***************************************************************************)
(* Note strings, the strategy and NoteRenderer.  A note string is held as  *)
(* the sequence of its characters.  helpers/notehelpers.ts, constants.ts   *)
(* and the strategies are not among the sources: the parser follows the    *)
(* grammar <Pitch:[A-G]><Accidental?:#|b|n|##|bb><Octave:digits>           *)
(* <Duration:w|h|q|e>, and the strategy is the single treble staff.        *)
(***************************************************************************)
NOTE_SPACING == 28
ACCIDENTAL_OFFSET_X == -8
DOUBLE_SHARP_ACCIDENTAL_OFFSET_X == -4
DOUBLE_FLAT_ACCIDENTAL_OFFSET_X == -6
CHORD_MAX_CONSECUTIVE_ACCIDENTALS == 3
STAFF_LINE_SPACING == 10

PitchNames == <<"C", "D", "E", "F", "G", "A", "B">>

digitValue ==
    ("0" :> 0) @@ ("1" :> 1) @@ ("2" :> 2) @@ ("3" :> 3) @@ ("4" :> 4) @@
    ("5" :> 5) @@ ("6" :> 6) @@ ("7" :> 7) @@ ("8" :> 8) @@ ("9" :> 9)

Accidentals == {<<"#">>, <<"b">>, <<"n">>, <<"#", "#">>, <<"b", "b">>}

\* The accidental of a NoteObj as one string; "" where the field is absent.
accidentalString(chars) ==
    IF chars = <<>> THEN ""
    ELSE IF chars = <<"#">> THEN "#"
    ELSE IF chars = <<"b">> THEN "b"
    ELSE IF chars = <<"n">> THEN "n"
    ELSE IF chars = <<"#", "#">> THEN "##"
    ELSE "bb"

RECURSIVE digitsValue(_)
digitsValue(digits) ==
    IF digits = <<>> THEN 0
    ELSE 10 * digitsValue(SubSeq(digits, 1, Len(digits) - 1))
         + digitValue[digits[Len(digits)]]

\* Length of the longest prefix of chars that holds no digit.
RECURSIVE nonDigitPrefix(_)
nonDigitPrefix(chars) ==
    IF chars = <<>> \/ Head(chars) \in DOMAIN digitValue THEN 0
    ELSE 1 + nonDigitPrefix(Tail(chars))

parseNoteString_OctaveFromOne(noteString) ==
    LET n == Len(noteString)
        middle == SubSeq(noteString, 2, n - 1)
        k == nonDigitPrefix(middle)
        accidental == SubSeq(middle, 1, k)
        digits == SubSeq(middle, k + 1, Len(middle))
        ok == /\ n >= 3
              /\ noteString[1] \in {PitchNames[i] : i \in DOMAIN PitchNames}
              /\ noteString[n] \in {"w", "h", "q", "e"}
              /\ accidental \in Accidentals \cup {<<>>}
              /\ digits # <<>>
              /\ \A i \in DOMAIN digits : digits[i] \in DOMAIN digitValue
    IN  IF ok
        THEN [ok |-> TRUE,
              note |-> [name |-> noteString[1],
                        accidental |-> accidentalString(accidental),
                        octave |-> digitsValue(digits) + 1,
                        duration |-> noteString[n]]]
        ELSE [ok |-> FALSE,
              note |-> [name |-> "C", accidental |-> "", octave |-> 0, duration |-> "w"]]

parseNoteString(noteString) ==
    LET n == Len(noteString)
        middle == SubSeq(noteString, 2, n - 1)
        k == nonDigitPrefix(middle)
        accidental == SubSeq(middle, 1, k)
        digits == SubSeq(middle, k + 1, Len(middle))
        ok == /\ n >= 3
              /\ noteString[1] \in {PitchNames[i] : i \in DOMAIN PitchNames}
              /\ noteString[n] \in {"w", "h", "q", "e"}
              /\ accidental \in Accidentals \cup {<<>>}
              /\ digits # <<>>
              /\ \A i \in DOMAIN digits : digits[i] \in DOMAIN digitValue
    IN  IF ok
        THEN [ok |-> TRUE,
              note |-> [name |-> noteString[1],
                        accidental |-> accidentalString(accidental),
                        octave |-> digitsValue(digits),
                        duration |-> noteString[n]]]
        ELSE [ok |-> FALSE,
              note |-> [name |-> "C", accidental |-> "", octave |-> 0, duration |-> "w"]]

\* The token of a descriptor, written after the full-token grammar: pitch,
\* accidental if any, octave in decimal digits, duration.
accidentalChars(accidental) ==
    CASE accidental = "" -> <<>>
      [] accidental = "#" -> <<"#">>
      [] accidental = "b" -> <<"b">>
      [] accidental = "n" -> <<"n">>
      [] accidental = "##" -> <<"#", "#">>
      [] accidental = "bb" -> <<"b", "b">>

digitChars == <<"0", "1", "2", "3", "4", "5", "6", "7", "8", "9">>

RECURSIVE octaveDigits(_)
octaveDigits(octave) ==
    IF octave < 10 THEN <<digitChars[octave + 1]>>
    ELSE octaveDigits(octave \div 10) \o <<digitChars[(octave % 10) + 1]>>

formatNoteString(note) ==
    <<note.name>> \o accidentalChars(note.accidental) \o octaveDigits(note.octave)
        \o <<note.duration>>

\* The diatonic index of a pitch: seven steps to the octave, C lowest.
getNameOctaveIdx(name, octave) ==
    octave * 7 + (CHOOSE i \in DOMAIN PitchNames : PitchNames[i] = name) - 1

\* Treble staff: y is 0 on the top line (F5) and grows downwards, half a
\* line spacing for each diatonic step.
calculateNoteYPos(name, octave) ==
    (getNameOctaveIdx("F", 5) - getNameOctaveIdx(name, octave))
    * (STAFF_LINE_SPACING \div 2)

\* The stem flips for notes on or above the middle line (B4).
shouldNoteFlip(ySpacing) == ySpacing <= 2 * STAFF_LINE_SPACING

\* NoteRenderer.renderNote: the group it draws and the offsets it returns.
\* accidentalTransform is the transform attribute of the accidental's element.
NoteRenderer_renderNote(note, ySpacing) ==
    LET noteFlip == shouldNoteFlip(ySpacing)
        glyph ==
            CASE note.duration = "h" -> "NOTE_HEAD_HALF"
              [] note.duration = "q" -> "NOTE_HEAD_QUARTER"
              [] note.duration = "e" ->
                     IF noteFlip THEN "EIGHTH_NOTE_FLIPPED" ELSE "EIGHTH_NOTE"
              [] OTHER -> "NOTE_HEAD_WHOLE"
        stem ==
            IF note.duration \in {"h", "q"}
            THEN (IF noteFlip THEN "down" ELSE "up")
            ELSE "none"
        accidentalGlyph ==
            CASE note.accidental = "#" -> "ACCIDENTAL_SHARP"
              [] note.accidental = "b" -> "ACCIDENTAL_FLAT"
              [] note.accidental = "n" -> "ACCIDENTAL_NATURAL"
              [] note.accidental = "##" -> "ACCIDENTAL_DOUBLE_SHARP"
              [] note.accidental = "bb" -> "ACCIDENTAL_DOUBLE_FLAT"
              [] OTHER -> "none"
        xOffset ==
            CASE note.accidental \in {"#", "b", "n"} -> 0 - ACCIDENTAL_OFFSET_X
              [] note.accidental = "##" ->
                     0 - (ACCIDENTAL_OFFSET_X + DOUBLE_SHARP_ACCIDENTAL_OFFSET_X)
              [] note.accidental = "bb" ->
                     0 - (ACCIDENTAL_OFFSET_X + DOUBLE_FLAT_ACCIDENTAL_OFFSET_X)
              [] OTHER -> 0
    IN  [noteGroup |-> [tag |-> "note", glyph |-> glyph, stem |-> stem,
                        accidental |-> accidentalGlyph,
                        accidentalTransform |-> [set |-> FALSE, x |-> 0],
                        x |-> 0, y |-> 0],
         accidentalOffset |-> xOffset,
         cursorOffset |-> 0]

\* setAttribute("transform", translate(x, y)) on a group.
Translate(group, x, y) == [group EXCEPT !.x = x, !.y = y]

RECURSIVE consecutiveAccidentalsLoop_NoCap(_, _)
consecutiveAccidentalsLoop_NoCap(acc, i) ==
    IF i > Len(acc.notes) THEN acc
    ELSE LET currNote == acc.notes[i]
             hasAccidental == currNote.note.accidental # ""
             next ==
                 IF hasAccidental
                 THEN [acc EXCEPT
                          !.consecutiveXOffset = @ + ACCIDENTAL_OFFSET_X,
                          !.maxConsecutiveXOffset =
                              Min(@, acc.consecutiveXOffset + ACCIDENTAL_OFFSET_X),
                          !.currentAccidentalCount = @ + 1]
                 ELSE IF hasAccidental /\ acc.currentAccidentalCount <= CHORD_MAX_CONSECUTIVE_ACCIDENTALS
                 THEN [acc EXCEPT !.consecutiveXOffset = ACCIDENTAL_OFFSET_X,
                                  !.currentAccidentalCount = 1]
                 ELSE [acc EXCEPT !.consecutiveXOffset = 0,
                                  !.currentAccidentalCount = 0]
             moved ==
                 IF next.consecutiveXOffset # 0 /\ currNote.gElement.accidental # "none"
                 THEN [next EXCEPT !.notes[i].gElement.accidentalTransform =
                          [set |-> TRUE,
                           x |-> next.consecutiveXOffset + (0 - ACCIDENTAL_OFFSET_X)]]
                 ELSE next
         IN  consecutiveAccidentalsLoop_NoCap(moved, i + 1)

\* The loop of chordOffsetConsecutiveAccidentals from index i on; acc holds
\* the entries and the three loop variables.
RECURSIVE consecutiveAccidentalsLoop(_, _)
consecutiveAccidentalsLoop(acc, i) ==
    IF i > Len(acc.notes) THEN acc
    ELSE LET currNote == acc.notes[i]
             hasAccidental == currNote.note.accidental # ""
             next ==
                 IF hasAccidental /\ acc.currentAccidentalCount < CHORD_MAX_CONSECUTIVE_ACCIDENTALS
                 THEN [acc EXCEPT
                          !.consecutiveXOffset = @ + ACCIDENTAL_OFFSET_X,
                          !.maxConsecutiveXOffset =
                              Min(@, acc.consecutiveXOffset + ACCIDENTAL_OFFSET_X),
                          !.currentAccidentalCount = @ + 1]
                 ELSE IF hasAccidental /\ acc.currentAccidentalCount <= CHORD_MAX_CONSECUTIVE_ACCIDENTALS
                 THEN [acc EXCEPT !.consecutiveXOffset = ACCIDENTAL_OFFSET_X,
                                  !.currentAccidentalCount = 1]
                 ELSE [acc EXCEPT !.consecutiveXOffset = 0,
                                  !.currentAccidentalCount = 0]
             moved ==
                 IF next.consecutiveXOffset # 0 /\ currNote.gElement.accidental # "none"
                 THEN [next EXCEPT !.notes[i].gElement.accidentalTransform =
                          [set |-> TRUE,
                           x |-> next.consecutiveXOffset + (0 - ACCIDENTAL_OFFSET_X)]]
                 ELSE next
         IN  consecutiveAccidentalsLoop(moved, i + 1)

chordOffsetConsecutiveAccidentals_OneUnitAtLeast(notes) ==
    LET done == consecutiveAccidentalsLoop(
                    [notes |-> notes, consecutiveXOffset |-> 0,
                     maxConsecutiveXOffset |-> ACCIDENTAL_OFFSET_X,
                     currentAccidentalCount |-> 0], 1)
    IN  [notes |-> done.notes, offset |-> 0 - done.maxConsecutiveXOffset]

chordOffsetConsecutiveAccidentals_LastOffset(notes) ==
    LET done == consecutiveAccidentalsLoop(
                    [notes |-> notes, consecutiveXOffset |-> 0,
                     maxConsecutiveXOffset |-> 0, currentAccidentalCount |-> 0], 1)
    IN  [notes |-> done.notes, offset |-> 0 - done.consecutiveXOffset]

chordOffsetConsecutiveAccidentals(notes) ==
    LET done == consecutiveAccidentalsLoop(
                    [notes |-> notes, consecutiveXOffset |-> 0,
                     maxConsecutiveXOffset |-> 0, currentAccidentalCount |-> 0], 1)
    IN  [notes |-> done.notes, offset |-> 0 - done.maxConsecutiveXOffset]

RECURSIVE closeNotesLoop_StalePrev(_, _, _)
closeNotesLoop_StalePrev(acc, i, prev) ==
    IF i > Len(acc.notes) THEN acc
    ELSE LET currNote == acc.notes[i]
             prevNote == acc.notes[prev]
             nameDiff == getNameOctaveIdx(currNote.note.name, currNote.note.octave)
                         - getNameOctaveIdx(prevNote.note.name, prevNote.note.octave)
             closeNotesXOffset == NOTE_SPACING \div 2
             group == currNote.gElement
             shifted ==
                 [Translate(group, closeNotesXOffset, currNote.yPos) EXCEPT
                    !.accidentalTransform =
                        IF group.accidental # "none"
                        THEN [set |-> TRUE,
                              x |-> (0 - closeNotesXOffset)
                                    + (IF @.set THEN @.x ELSE 0)]
                        ELSE @]
         IN  IF nameDiff = 1
             THEN closeNotesLoop_StalePrev(
                      [acc EXCEPT !.notes[i].gElement = shifted,
                                  !.closeNotesXOffset = closeNotesXOffset],
                      i + 2, i)
             ELSE closeNotesLoop_StalePrev(acc, i + 1, i)

RECURSIVE closeNotesLoop_NoSkip(_, _, _)
closeNotesLoop_NoSkip(acc, i, prev) ==
    IF i > Len(acc.notes) THEN acc
    ELSE LET currNote == acc.notes[i]
             prevNote == acc.notes[prev]
             nameDiff == getNameOctaveIdx(currNote.note.name, currNote.note.octave)
                         - getNameOctaveIdx(prevNote.note.name, prevNote.note.octave)
             closeNotesXOffset == NOTE_SPACING \div 2
             group == currNote.gElement
             shifted ==
                 [Translate(group, closeNotesXOffset, currNote.yPos) EXCEPT
                    !.accidentalTransform =
                        IF group.accidental # "none"
                        THEN [set |-> TRUE,
                              x |-> (0 - closeNotesXOffset)
                                    + (IF @.set THEN @.x ELSE 0)]
                        ELSE @]
         IN  IF nameDiff = 1
             THEN closeNotesLoop_NoSkip(
                      [acc EXCEPT !.notes[i].gElement = shifted,
                                  !.closeNotesXOffset = closeNotesXOffset],
                      i + 1, i)
             ELSE closeNotesLoop_NoSkip(acc, i + 1, i)

\* The loop of chordOffsetCloseNotes; i and prev are indices from 1, and prev
\* may point past the end after the last pair was resolved.
RECURSIVE closeNotesLoop(_, _, _)
closeNotesLoop(acc, i, prev) ==
    IF i > Len(acc.notes) THEN acc
    ELSE LET currNote == acc.notes[i]
             prevNote == acc.notes[prev]
             nameDiff == getNameOctaveIdx(currNote.note.name, currNote.note.octave)
                         - getNameOctaveIdx(prevNote.note.name, prevNote.note.octave)
             closeNotesXOffset == NOTE_SPACING \div 2
             group == currNote.gElement
             shifted ==
                 [Translate(group, closeNotesXOffset, currNote.yPos) EXCEPT
                    !.accidentalTransform =
                        IF group.accidental # "none"
                        THEN [set |-> TRUE,
                              x |-> (0 - closeNotesXOffset)
                                    + (IF @.set THEN @.x ELSE 0)]
                        ELSE @]
         IN  IF nameDiff = 1
             THEN closeNotesLoop(
                      [acc EXCEPT !.notes[i].gElement = shifted,
                                  !.closeNotesXOffset = closeNotesXOffset],
                      i + 2, i + 1)
             ELSE closeNotesLoop(acc, i + 1, i)

chordOffsetCloseNotes(notes) ==
    LET done == closeNotesLoop([notes |-> notes, closeNotesXOffset |-> 0], 2, 1)
    IN  [notes |-> done.notes, offset |-> done.closeNotesXOffset]

\* The entry renderChord keeps of one member, drawn at height yPos.
chordMemberAt(noteObj, yPos) ==
    [gElement |-> Translate(NoteRenderer_renderNote(noteObj, yPos).noteGroup, 0, yPos),
     note |-> noteObj, xPos |-> 0, yPos |-> yPos, accidentalXOffset |-> 0]

chordMember(noteObj) ==
    chordMemberAt(noteObj, calculateNoteYPos(noteObj.name, noteObj.octave))

\* The first loop of renderChord: each member parsed and rendered in turn;
\* ok is FALSE where a member's string does not parse.
RECURSIVE renderChordMembers(_, _, _)
renderChordMembers(notes, i, noteObjs) ==
    IF i > Len(notes) THEN [ok |-> TRUE, noteObjs |-> noteObjs]
    ELSE LET parsed == parseNoteString(notes[i])
         IN  IF ~parsed.ok THEN [ok |-> FALSE, noteObjs |-> noteObjs]
             ELSE renderChordMembers(notes, i + 1,
                                     Append(noteObjs, chordMember(parsed.note)))

\* What renderChord returns; created counts the groups made: the chord's and
\* one for each member.
chordReturn(noteObjs, accidentalXOffset, closeNotesXOffset) ==
    [ok |-> TRUE, created |-> Len(noteObjs) + 1,
     noteGroup |-> [tag |-> "chord",
                    members |-> [j \in DOMAIN noteObjs |-> noteObjs[j].gElement],
                    x |-> 0, y |-> 0],
     accidentalOffset |-> accidentalXOffset,
     cursorOffset |-> closeNotesXOffset]

\* The second pass runs on the members as the first pass left them.
chordCloseNotesPass(stacked, spread) ==
    chordReturn(spread.notes, stacked.offset, spread.offset)

chordPasses(stacked) == chordCloseNotesPass(stacked, chordOffsetCloseNotes(stacked.notes))

renderChordOf(members) ==
    IF ~members.ok
    THEN [ok |-> FALSE, created |-> Len(members.noteObjs) + 1,
          noteGroup |-> [tag |-> "chord", members |-> <<>>, x |-> 0, y |-> 0],
          accidentalOffset |-> 0, cursorOffset |-> 0]
    ELSE chordPasses(chordOffsetConsecutiveAccidentals(members.noteObjs))

\* NoteRenderer.renderChord.
renderChord(notes) == renderChordOf(renderChordMembers(notes, 1, <<>>))

(***************************************************************************)
(* MusicStaff.                                                             *)
(***************************************************************************)
\* One pass of MusicStaff.drawNote's loop body for a parsed note.
MusicStaff_drawNoteToken(s, noteObj) ==
    LET yPos == calculateNoteYPos(noteObj.name, noteObj.octave)
        res == NoteRenderer_renderNote(noteObj, yPos)
        group == Translate(res.noteGroup, s.cursor + res.accidentalOffset, yPos)
    IN  [s EXCEPT !.entries = Append(@, [gElement |-> group,
                                         note |-> noteObj,
                                         xPos |-> s.cursor + res.accidentalOffset,
                                         yPos |-> yPos,
                                         accidentalXOffset |-> res.accidentalOffset]),
                  !.cursor = @ + NOTE_SPACING + res.accidentalOffset,
                  !.noteGroups = Append(@, group),
                  !.drawn = @ + 1,
                  !.created = @ + 1]

RECURSIVE MusicStaff_drawNoteLoop(_, _, _)
MusicStaff_drawNoteLoop(s, notes, i) ==
    IF i > Len(notes)
    THEN [s EXCEPT !.layer = commitElementsToDOM(@, s.noteGroups)]
    ELSE LET parsed == parseNoteString(notes[i])
         IN  IF ~parsed.ok THEN ThrowFromBatch(s, "ParseError", i)
             ELSE MusicStaff_drawNoteLoop(MusicStaff_drawNoteToken(s, parsed.note),
                                          notes, i + 1)

MusicStaff_drawNote(s, notes) == MusicStaff_drawNoteLoop(s, normalizedNotesArray(notes), 1)

\* The entry kept of a chord: its group, its first member's note and its place.
chordEntry(group, notes, xPos, res) ==
    [gElement |-> Translate(group, xPos, 0),
     note |-> parseNoteString(notes[1]).note,
     xPos |-> xPos, yPos |-> 0, accidentalXOffset |-> res.accidentalOffset]

\* drawRenderedChord with the cursor advanced without the close-note offset.
drawRenderedChord_NoCursorOffset(s, notes, res) ==
    IF ~res.ok
    THEN [s EXCEPT !.error = "ParseError", !.created = res.created]
    ELSE [s EXCEPT
            !.entries = Append(@, chordEntry(res.noteGroup, notes,
                                             s.cursor + res.accidentalOffset, res)),
            !.cursor = @ + NOTE_SPACING + res.accidentalOffset,
            !.layer = commitElementsToDOM(@,
                          <<Translate(res.noteGroup, s.cursor + res.accidentalOffset, 0)>>),
            !.drawn = 1,
            !.created = res.created]

\* drawChord from the point where renderChord has returned res.
drawRenderedChord(s, notes, res) ==
    IF ~res.ok
    THEN [s EXCEPT !.error = "ParseError", !.created = res.created]
    ELSE [s EXCEPT
            !.entries = Append(@, chordEntry(res.noteGroup, notes,
                                             s.cursor + res.accidentalOffset, res)),
            !.cursor = @ + NOTE_SPACING + res.accidentalOffset + res.cursorOffset,
            !.layer = commitElementsToDOM(@,
                          <<Translate(res.noteGroup, s.cursor + res.accidentalOffset, 0)>>),
            !.drawn = 1,
            !.created = res.created]

\* drawChord with the member test written < 1 instead of < 2.
drawChord_AcceptsOneNote(s, notes) ==
    IF Len(notes) < 1 THEN [s EXCEPT !.error = "StateError"]
    ELSE drawRenderedChord(s, notes, renderChord(notes))

drawChord(s, notes) ==
    IF Len(notes) < 2 THEN [s EXCEPT !.error = "StateError"]
    ELSE drawRenderedChord(s, notes, renderChord(notes))

\* Node.replaceChild(newChild, oldChild) on the layer's children.
replaceChild(layer, newChild, oldChild) ==
    LET at == CHOOSE j \in DOMAIN layer : layer[j] = oldChild
    IN  [layer EXCEPT ![at] = newChild]

\* changeNoteByIndex with the new offset added to the entry's xPos as it is.
changeNoteByIndex_Accumulates(s, note, noteIndex) ==
    LET parsed == parseNoteString(note)
        noteObj == parsed.note
        noteEntry == s.entries[noteIndex + 1]
        newNoteYPos == calculateNoteYPos(noteObj.name, noteObj.octave)
        res == NoteRenderer_renderNote(noteObj, newNoteYPos)
        normalizedOriginalXPos == noteEntry.xPos
        newXPos == normalizedOriginalXPos + res.accidentalOffset
        group == Translate(res.noteGroup, newXPos, newNoteYPos)
    IN  IF noteIndex >= Len(s.entries) THEN [s EXCEPT !.error = "BoundsError"]
        ELSE IF ~parsed.ok THEN [s EXCEPT !.error = "ParseError"]
        ELSE IF noteIndex < 0 THEN [s EXCEPT !.error = "TypeError", !.created = 1]
        ELSE IF \A j \in DOMAIN s.layer : s.layer[j] # noteEntry.gElement
             THEN [s EXCEPT !.error = "NotFoundError", !.created = 1]
        ELSE [s EXCEPT
                !.layer = replaceChild(@, group, noteEntry.gElement),
                !.entries[noteIndex + 1] =
                    [gElement |-> group, note |-> noteObj, xPos |-> newXPos,
                     yPos |-> newNoteYPos, accidentalXOffset |-> res.accidentalOffset],
                !.drawn = 1,
                !.created = 1]

\* noteIndex counts from 0, as in the code.
changeNoteByIndex(s, note, noteIndex) ==
    LET parsed == parseNoteString(note)
        noteObj == parsed.note
        noteEntry == s.entries[noteIndex + 1]
        newNoteYPos == calculateNoteYPos(noteObj.name, noteObj.octave)
        res == NoteRenderer_renderNote(noteObj, newNoteYPos)
        normalizedOriginalXPos == noteEntry.xPos - noteEntry.accidentalXOffset
        newXPos == normalizedOriginalXPos + res.accidentalOffset
        group == Translate(res.noteGroup, newXPos, newNoteYPos)
    IN  IF noteIndex >= Len(s.entries) THEN [s EXCEPT !.error = "BoundsError"]
        ELSE IF ~parsed.ok THEN [s EXCEPT !.error = "ParseError"]
        ELSE IF noteIndex < 0 THEN [s EXCEPT !.error = "TypeError", !.created = 1]
        ELSE IF \A j \in DOMAIN s.layer : s.layer[j] # noteEntry.gElement
             THEN [s EXCEPT !.error = "NotFoundError", !.created = 1]
        ELSE [s EXCEPT
                !.layer = replaceChild(@, group, noteEntry.gElement),
                !.entries[noteIndex + 1] =
                    [gElement |-> group, note |-> noteObj, xPos |-> newXPos,
                     yPos |-> newNoteYPos, accidentalXOffset |-> res.accidentalOffset],
                !.drawn = 1,
                !.created = 1]

\* changeChordByIndex from the point where renderChord has returned res.
changeRenderedChord(s, notes, chordIndex, res) ==
    LET chordEntryOld == s.entries[chordIndex + 1]
        normalizedOriginalXPos == chordEntryOld.xPos - chordEntryOld.accidentalXOffset
        newXPos == normalizedOriginalXPos + res.accidentalOffset
    IN  IF ~res.ok THEN [s EXCEPT !.error = "ParseError", !.created = res.created]
        ELSE IF chordIndex < 0
             THEN [s EXCEPT !.error = "TypeError", !.created = res.created]
        ELSE IF \A j \in DOMAIN s.layer : s.layer[j] # chordEntryOld.gElement
             THEN [s EXCEPT !.error = "NotFoundError", !.created = res.created]
        ELSE [s EXCEPT
                !.layer = replaceChild(@, Translate(res.noteGroup, newXPos, 0),
                                       chordEntryOld.gElement),
                !.entries[chordIndex + 1] =
                    chordEntry(res.noteGroup, notes, newXPos, res),
                !.drawn = 1,
                !.created = res.created]

\* changeChordByIndex with the chord rendered, and so parsed, before the tests.
changeChordByIndex_ParsesFirst(s, notes, chordIndex) ==
    IF ~renderChord(notes).ok THEN [s EXCEPT !.error = "ParseError"]
    ELSE IF chordIndex >= Len(s.entries) THEN [s EXCEPT !.error = "BoundsError"]
    ELSE IF Len(notes) < 2 THEN [s EXCEPT !.error = "StateError"]
    ELSE changeRenderedChord(s, notes, chordIndex, renderChord(notes))

changeChordByIndex(s, notes, chordIndex) ==
    IF chordIndex >= Len(s.entries) THEN [s EXCEPT !.error = "BoundsError"]
    ELSE IF Len(notes) < 2 THEN [s EXCEPT !.error = "StateError"]
    ELSE changeRenderedChord(s, notes, chordIndex, renderChord(notes))

(***************************************************************************)
(* The playhead of RhythmStaff.  currentBeatUICount counts quarter beats;  *)
(* x is in quarter pixels.  The rect is recorded by whether it has been    *)
(* created, its display attribute ("" when absent) and its x attribute.    *)
(***************************************************************************)
NoElement == [created |-> FALSE, display |-> "", x |-> 0]

createBeatUIElement(u) ==
    [u EXCEPT !.element = [created |-> TRUE, display |-> "",
                           x |-> CURRENT_BEAT_UI_START_X_POS]]

\* The part of incrementCurrentBeatUI after the element is known to exist.
incrementExistingBeatUI_AlwaysOneBeat(u) ==
    IF u.count * BeatUnit >= maxBeatCount
    THEN [u EXCEPT !.element.display = "none"]
    ELSE [count |-> u.count + 1,
          x |-> u.x + quarterNoteSpacing * BeatUnit,
          element |-> [created |-> TRUE, display |-> "",
                       x |-> u.x + quarterNoteSpacing * BeatUnit]]

\* beatUIAdvance with the bar gap added on the last beat of a bar.
beatUIAdvance_GapAtBarEnd(count) ==
    (IF count > 1 /\ count % topNumber = 0 THEN BAR_SPACING * BeatUnit ELSE 0)
    + (IF count > 1 THEN quarterNoteSpacing * BeatUnit ELSE 0)

beatUIAdvance(count) ==
    (IF count > topNumber /\ count % topNumber = 1 THEN BAR_SPACING * BeatUnit ELSE 0)
    + (IF count > 1 THEN quarterNoteSpacing * BeatUnit ELSE 0)

incrementExistingBeatUI(u) ==
    IF u.count * BeatUnit >= maxBeatCount
    THEN [u EXCEPT !.element.display = "none"]
    ELSE [count |-> u.count + 1,
          x |-> u.x + beatUIAdvance(u.count + 1),
          element |-> [created |-> TRUE, display |-> "",
                       x |-> u.x + beatUIAdvance(u.count + 1)]]

incrementCurrentBeatUI(u) ==
    incrementExistingBeatUI(IF u.element.created THEN u ELSE createBeatUIElement(u))

resetCurrentBeatUI_ShowsElement(u) ==
    [count |-> 0, x |-> CURRENT_BEAT_UI_START_X_POS,
     element |-> IF u.element.created
                 THEN [created |-> TRUE, display |-> "",
                       x |-> CURRENT_BEAT_UI_START_X_POS]
                 ELSE u.element]

resetCurrentBeatUI(u) ==
    [count |-> 0, x |-> CURRENT_BEAT_UI_START_X_POS,
     element |-> IF u.element.created
                 THEN [created |-> TRUE, display |-> "none",
                       x |-> CURRENT_BEAT_UI_START_X_POS]
                 ELSE u.element]

(***************************************************************************)
(* ScrollingStaff.  Its NoteRenderer takes the note string and parses it   *)
(* itself; the two chord passes are the ones above.  Lengths are whole     *)
(* pixels.                                                                 *)
(***************************************************************************)
SCROLLING_NOTE_SPACING == 60
SPAWN_X_OFFSET == SCROLLING_NOTE_SPACING

\* The instance during a call.
\* removed counts the active entries the call takes off the staff.
ScrollingSelf ==
    [cursor |-> noteCursorX, active |-> noteEntries, buffer |-> noteBuffer,
     layer |-> notesLayer, error |-> "none", removed |-> 0]

\* renderNote(noteString) with the transform its callers set on the group.
scrollingNoteAt(parsed, yPos) ==
    [error |-> IF parsed.ok THEN "none" ELSE "ParseError",
     noteGroup |-> Translate(NoteRenderer_renderNote(parsed.note, yPos).noteGroup, 0, yPos),
     cursorOffset |-> 0]

scrollingNoteOf(parsed) ==
    scrollingNoteAt(parsed, calculateNoteYPos(parsed.note.name, parsed.note.octave))

\* renderChord(notes) of this renderer: it reads noteObjs[0] for its return
\* value, which is a TypeError on an empty chord.
scrollingChordOf(notes, res) ==
    [error |-> IF ~res.ok THEN "ParseError"
               ELSE IF notes = <<>> THEN "TypeError" ELSE "none",
     noteGroup |-> Translate(res.noteGroup, 0, 0),
     cursorOffset |-> res.cursorOffset]

\* The group rendered for a buffered entry.
renderBuffered(entry) ==
    IF entry.type = "chord"
    THEN scrollingChordOf(entry.notes, renderChord(entry.notes))
    ELSE scrollingNoteOf(parseNoteString(entry.notes[1]))

noteWrapperAt(group, x) == [tag |-> "note-wrapper", child |-> group, x |-> x]

\* placeFirst with the rendered entry left at the head of the buffer.
placeFirst_KeepsBuffered(s, r) ==
    [s EXCEPT !.cursor = @ + SCROLLING_NOTE_SPACING + r.cursorOffset,
              !.layer = Append(@, noteWrapperAt(r.noteGroup, s.cursor)),
              !.active = Append(@, [noteWrapper |-> noteWrapperAt(r.noteGroup, s.cursor),
                                    xPos |-> s.cursor]),
              !.buffer = IF Len(s.active) = 0 THEN @ ELSE Tail(@)]

\* One pass of the loop of renderFirstNoteGroups, the head of the buffer
\* being rendered as r.
placeFirst(s, r) ==
    [s EXCEPT !.cursor = @ + SCROLLING_NOTE_SPACING + r.cursorOffset,
              !.layer = Append(@, noteWrapperAt(r.noteGroup, s.cursor)),
              !.active = Append(@, [noteWrapper |-> noteWrapperAt(r.noteGroup, s.cursor),
                                    xPos |-> s.cursor]),
              !.buffer = Tail(@)]

RECURSIVE firstNoteGroupsLoop(_, _)
firstNoteGroupsStep(s, r, maxVisibleX) ==
    IF r.error # "none" THEN [s EXCEPT !.error = r.error]
    ELSE firstNoteGroupsLoop(placeFirst(s, r), maxVisibleX)

firstNoteGroupsLoop(s, maxVisibleX) ==
    IF Len(s.buffer) > 0 /\ s.cursor < maxVisibleX
    THEN firstNoteGroupsStep(s, renderBuffered(Head(s.buffer)), maxVisibleX)
    ELSE s

removeLastIncrement(s) ==
    IF s.error = "none" /\ Len(s.active) > 1
    THEN [s EXCEPT !.cursor = @ - SCROLLING_NOTE_SPACING * 2]
    ELSE s

renderFirstNoteGroups(s) ==
    removeLastIncrement(
        firstNoteGroupsLoop(s, (DefaultWidth - NOTE_LAYER_START_X) + SPAWN_X_OFFSET))

\* The buffer entry made of one member of a NoteSequence.
bufferedEntry(member) ==
    IF member.isArray THEN [type |-> "chord", notes |-> member.value]
    ELSE [type |-> "note", notes |-> <<member.value>>]

queueNotes(s, notes) ==
    renderFirstNoteGroups(
        [s EXCEPT !.buffer = @ \o [j \in DOMAIN notes |-> bufferedEntry(notes[j])]])

\* renderNextNote, the head of the buffer being rendered as r.
spawnNext(s, r) ==
    IF r.error # "none" THEN [s EXCEPT !.error = r.error]
    ELSE [s EXCEPT
            !.active = Append(@, [noteWrapper |->
                                      noteWrapperAt(r.noteGroup, s.cursor + SPAWN_X_OFFSET),
                                  xPos |-> s.cursor + SPAWN_X_OFFSET]),
            !.buffer = Tail(@),
            !.layer = Append(@, noteWrapperAt(r.noteGroup, s.cursor + SPAWN_X_OFFSET))]

renderNextNote(s) ==
    IF Len(s.buffer) < 1 THEN s
    ELSE spawnNext(s, renderBuffered(Head(s.buffer)))

\* Node.removeChild(child) on the layer's children.
removeChild(layer, child) ==
    LET at == CHOOSE j \in DOMAIN layer : layer[j] = child
    IN  SubSeq(layer, 1, at - 1) \o SubSeq(layer, at + 1, Len(layer))

\* The forEach of advanceNotes: every active entry and its wrapper move left.
moveActiveLeft(s) ==
    LET wrappers == {s.active[j].noteWrapper : j \in DOMAIN s.active}
    IN  [s EXCEPT
            !.active = [j \in DOMAIN s.active |->
                           [noteWrapper |->
                                [s.active[j].noteWrapper EXCEPT
                                    !.x = s.active[j].xPos - SCROLLING_NOTE_SPACING],
                            xPos |-> s.active[j].xPos - SCROLLING_NOTE_SPACING]],
            !.layer = [j \in DOMAIN s.layer |->
                          IF s.layer[j] \in wrappers
                          THEN [s.layer[j] EXCEPT !.x = @ - SCROLLING_NOTE_SPACING]
                          ELSE s.layer[j]]]

\* The removal of the first active entry once it has reached x <= 0.
dropFirstActive(s) ==
    IF s.active[1].xPos <= 0
    THEN [s EXCEPT !.layer = removeChild(@, s.active[1].noteWrapper),
                   !.active = Tail(@),
                   !.removed = @ + 1]
    ELSE s

advanceNotes(s) ==
    IF Len(s.active) <= 0 THEN s
    ELSE renderNextNote(dropFirstActive(moveActiveLeft(s)))

(***************************************************************************)
(* Inputs.                                                                 *)
(***************************************************************************)
\* Strings handed to drawNote / drawRest: the four durations and a string that
\* is no duration.
DurationTokens == {"w", "h", "q", "e", "x"}

\* The empty array and the arrays of two members of S.
ShortArrays(S) == {<<>>} \cup {<<a, b>> : a \in S, b \in S}

\* The arrays of the documentation's examples and of the overflow scenario.
ExampleBatches == {<<"q", "q", "q", "h">>, <<"q", "q", "q", "q", "w">>}

\* Arrays with a malformed member, first and last.
MalformedBatches == {<<"q", "x">>, <<"x", "q">>}

NoteArguments ==
    {[isArray |-> FALSE, value |-> t] : t \in DurationTokens}
    \cup {[isArray |-> TRUE, value |-> b] :
            b \in ShortArrays({"w", "q", "e"}) \cup MalformedBatches
                  \cup ExampleBatches}

\* Arguments of drawRest: every single string, the empty array, a pair of
\* rests, and the arrays with a malformed member and of the examples.
RestArguments ==
    {[isArray |-> FALSE, value |-> t] : t \in DurationTokens}
    \cup {[isArray |-> TRUE, value |-> b] :
            b \in {<<>>, <<"h", "e">>} \cup MalformedBatches \cup ExampleBatches}

\* noteCount values: 0..MaxBeamCount, the documented 8 (a bar of eighths in
\* 4/4) and one short of it.
BeamCounts == (0..MaxBeamCount) \cup {2 * BeatUnit - 1, 2 * BeatUnit}

\* Note strings given to MusicStaff: a plain note, one with a sharp, and one
\* whose pitch letter is outside A-G.
NoteStrings == {<<"C", "4", "q">>, <<"D", "#", "4", "h">>, <<"H", "4", "q">>}

MusicNoteArguments ==
    {[isArray |-> FALSE, value |-> t] : t \in NoteStrings}
    \cup {[isArray |-> TRUE, value |-> b] : b \in ShortArrays(NoteStrings)}

\* Chords: none or one member, a third, a second with an accidental, and one
\* with a malformed member.
ChordArguments ==
    {<<>>,
     <<(<<"C", "4", "q">>)>>,
     <<(<<"C", "4", "q">>), (<<"E", "4", "q">>)>>,
     <<(<<"C", "#", "4", "w">>), (<<"D", "b", "b", "4", "w">>)>>,
     <<(<<"C", "4", "q">>), (<<"H", "4", "q">>)>>}

\* Members of the sequences queued on a ScrollingStaff.
QueuedNote(noteString) == [isArray |-> FALSE, value |-> noteString]

QueuedChord(noteStrings) == [isArray |-> TRUE, value |-> noteStrings]

\* More notes than the visible width takes: the 7th stays in the buffer.
LongSequence == [j \in 1..7 |-> QueuedNote(<<"C", "4", "q">>)]

\* Sequences queued: none, one note, a note and a chord of a second, a
\* malformed second member, an empty chord, and the long sequence.
NoteSequences ==
    {<<>>,
     <<QueuedNote(<<"C", "4", "q">>)>>,
     <<QueuedNote(<<"D", "#", "4", "h">>),
       QueuedChord(<<(<<"C", "4", "q">>), (<<"D", "4", "q">>)>>)>>,
     <<QueuedNote(<<"C", "4", "q">>), QueuedNote(<<"H", "4", "q">>)>>,
     <<QueuedChord(<<>>)>>,
     LongSequence}

\* Indices given to the change operations: one below the list, every index of
\* the longest list they are tried on, and one past it.
EntryIndices == (0 - 1)..(MaxEntries - 1)

\* The playhead, as a call finds it.
UIBefore ==
    [count |-> currentBeatUICount, x |-> currentBeatUIXPos,
     element |-> currentBeatUIElement]

\* The instance's layout state, as a call finds it.
Before ==
    [beat |-> currentBeatCount, cursor |-> noteCursorX, entries |-> noteEntries,
     layer |-> notesLayer, buffer |-> noteBuffer]

\* What is recorded of a call: the operation, its arguments, the error it threw
\* ("none" when it returned), the index (from 1) of the array member it failed
\* at, the filler runs it made, the numbers of members drawn and of groups
\* created, and the layout state it started from.  newBars is the number of
\* bar gaps the call added to the cursor and barGaps the number added since
\* construction or the last clearAllNotes.
Call(op, arg, count, s) ==
    [op |-> op, arg |-> arg, count |-> count, error |-> s.error,
     failedAt |-> s.failedAt, fills |-> s.fills, drawn |-> s.drawn,
     created |-> s.created, newBars |-> s.newBars,
     barGaps |-> ret.barGaps + s.newBars, before |-> Before, ui |-> UIBefore]

NoCall ==
    [op |-> "new", arg |-> <<>>, count |-> 0, error |-> "none",
     failedAt |-> 0, fills |-> <<>>, drawn |-> 0, created |-> 0,
     newBars |-> 0, barGaps |-> 0,
     before |-> [beat |-> 0, cursor |-> 0, entries |-> <<>>, layer |-> <<>>,
                 buffer |-> <<>>],
     ui |-> [count |-> 0, x |-> 0, element |-> NoElement]]

\* Writes a call's outcome back to the instance.
Store(s) ==
    /\ currentBeatCount' = s.beat
    /\ noteCursorX' = s.cursor
    /\ noteEntries' = s.entries
    /\ notesLayer' = s.layer

(***************************************************************************)
(* The state machine.                                                      *)
(***************************************************************************)
\* Options handed to the RhythmStaff constructor: the supported values and
\* their neighbours on both sides.
TopNumberOptions == 2..5

BarsCountOptions == 0..4

\* RhythmStaff constructor with the upper bars-count test written > 4.
RhythmStaff_constructor_FourBars(width, top, bars) ==
    IF top \notin {3, 4}
    THEN [error |-> "ConfigError", quarterNoteSpacing |-> 0, maxBeatCount |-> 0]
    ELSE IF bars < 1 \/ bars > 4
    THEN [error |-> "ConfigError", quarterNoteSpacing |-> 0, maxBeatCount |-> 0]
    ELSE [error |-> "none",
          quarterNoteSpacing |-> ConstructorQuarterNoteSpacing(width, top, bars),
          maxBeatCount |-> bars * top * BeatUnit]

\* The constructor of RhythmStaff: the error it throws, or the fields it sets.
RhythmStaff_constructor(width, top, bars) ==
    IF top \notin {3, 4}
    THEN [error |-> "ConfigError", quarterNoteSpacing |-> 0, maxBeatCount |-> 0]
    ELSE IF bars < 1 \/ bars > 3
    THEN [error |-> "ConfigError", quarterNoteSpacing |-> 0, maxBeatCount |-> 0]
    ELSE [error |-> "none",
          quarterNoteSpacing |-> ConstructorQuarterNoteSpacing(width, top, bars),
          maxBeatCount |-> bars * top * BeatUnit]

\* The field initialisers the three classes share, and the playhead's.
InitFields ==
    /\ currentBeatCount = 0
    /\ noteCursorX = 0
    /\ noteEntries = <<>>
    /\ notesLayer = <<>>
    /\ noteBuffer = <<>>
    /\ currentBeatUICount = 0
    /\ currentBeatUIElement = NoElement

InitRhythm ==
    /\ staffKind = "rhythm"
    /\ topNumber \in TopNumberOptions
    /\ barsCount \in BarsCountOptions
    /\ LET made == RhythmStaff_constructor(DefaultWidth, topNumber, barsCount)
       IN  /\ quarterNoteSpacing = made.quarterNoteSpacing
           /\ maxBeatCount = made.maxBeatCount
           /\ ret = [NoCall EXCEPT !.error = made.error]
    /\ InitFields
    /\ currentBeatUIXPos = CURRENT_BEAT_UI_START_X_POS

InitMusic ==
    /\ staffKind = "music"
    /\ topNumber = 0
    /\ barsCount = 0
    /\ quarterNoteSpacing = 0
    /\ maxBeatCount = 0
    /\ InitFields
    /\ currentBeatUIXPos = 0
    /\ ret = NoCall

InitScrolling ==
    /\ staffKind = "scrolling"
    /\ topNumber = 0
    /\ barsCount = 0
    /\ quarterNoteSpacing = 0
    /\ maxBeatCount = 0
    /\ InitFields
    /\ currentBeatUIXPos = 0
    /\ ret = NoCall

\* The constructor returned: the caller holds an instance to call.
Constructed == ~(ret.op = "new" /\ ret.error # "none")

Init == InitRhythm \/ InitMusic \/ InitScrolling

RhythmDrawNote ==
    /\ staffKind = "rhythm"
    /\ Constructed
    /\ Len(noteEntries) < MaxEntries
    /\ \E notes \in NoteArguments :
          LET s == RhythmStaff_drawNote(Self, notes)
          IN  Store(s) /\ ret' = Call("drawNote", notes, 0, s)
    /\ UNCHANGED <<config, playhead, noteBuffer>>

DrawRest ==
    /\ staffKind = "rhythm"
    /\ Constructed
    /\ Len(noteEntries) < MaxEntries
    /\ \E rests \in RestArguments :
          LET s == drawRest(Self, rests)
          IN  Store(s) /\ ret' = Call("drawRest", rests, 0, s)
    /\ UNCHANGED <<config, playhead, noteBuffer>>

DrawBeamedNotes ==
    /\ staffKind = "rhythm"
    /\ Constructed
    /\ Len(noteEntries) < MaxEntries
    /\ \E note \in {"e", "s"}, noteCount \in BeamCounts :
          LET s == drawBeamedNotes(Self, note, noteCount)
          IN  Store(s) /\ ret' = Call("drawBeamedNotes", note, noteCount, s)
    /\ UNCHANGED <<config, playhead, noteBuffer>>

\* clearAllNotes of the three classes, on the layout fields of the instance.
RhythmStaff_clearAllNotes(s) ==
    [s EXCEPT !.cursor = 0, !.beat = 0, !.layer = <<>>, !.entries = <<>>]

MusicStaff_clearAllNotes(s) ==
    [s EXCEPT !.cursor = 0, !.layer = <<>>, !.entries = <<>>]

ScrollingStaff_clearAllNotes_KeepsBuffer(s) ==
    [s EXCEPT !.cursor = 0, !.layer = <<>>, !.entries = <<>>]

ScrollingStaff_clearAllNotes(s) ==
    [s EXCEPT !.cursor = 0, !.layer = <<>>, !.entries = <<>>, !.buffer = <<>>]

StoreLayout(s) ==
    /\ currentBeatCount' = s.beat
    /\ noteCursorX' = s.cursor
    /\ noteEntries' = s.entries
    /\ notesLayer' = s.layer
    /\ noteBuffer' = s.buffer

RhythmClearAllNotes ==
    /\ staffKind = "rhythm"
    /\ Constructed
    /\ StoreLayout(RhythmStaff_clearAllNotes(Before))
    /\ ret' = [NoCall EXCEPT !.op = "clearAllNotes", !.before = Before, !.ui = UIBefore]
    /\ UNCHANGED <<config, playhead>>

\* The operations of MusicStaff leave currentBeatCount alone: the class has
\* no such field.
StoreMusic(s) ==
    /\ noteCursorX' = s.cursor
    /\ noteEntries' = s.entries
    /\ notesLayer' = s.layer
    /\ UNCHANGED currentBeatCount

MusicDrawNote ==
    /\ staffKind = "music"
    /\ Len(noteEntries) < MaxEntries
    /\ \E notes \in MusicNoteArguments :
          LET s == MusicStaff_drawNote(Self, notes)
          IN  StoreMusic(s) /\ ret' = Call("drawNote", notes, 0, s)
    /\ UNCHANGED <<config, playhead, noteBuffer>>

DrawChord ==
    /\ staffKind = "music"
    /\ Len(noteEntries) < MaxEntries
    /\ \E notes \in ChordArguments :
          LET s == drawChord(Self, notes)
          IN  StoreMusic(s) /\ ret' = Call("drawChord", notes, 0, s)
    /\ UNCHANGED <<config, playhead, noteBuffer>>

ChangeNoteByIndex ==
    /\ staffKind = "music"
    /\ Len(noteEntries) < MaxEntries
    /\ \E note \in NoteStrings, noteIndex \in EntryIndices :
          LET s == changeNoteByIndex(Self, note, noteIndex)
          IN  StoreMusic(s) /\ ret' = Call("changeNoteByIndex", note, noteIndex, s)
    /\ UNCHANGED <<config, playhead, noteBuffer>>

ChangeChordByIndex ==
    /\ staffKind = "music"
    /\ Len(noteEntries) < MaxEntries
    /\ \E notes \in ChordArguments, chordIndex \in EntryIndices :
          LET s == changeChordByIndex(Self, notes, chordIndex)
          IN  StoreMusic(s) /\ ret' = Call("changeChordByIndex", notes, chordIndex, s)
    /\ UNCHANGED <<config, playhead, noteBuffer>>

MusicClearAllNotes ==
    /\ staffKind = "music"
    /\ StoreLayout(MusicStaff_clearAllNotes(Before))
    /\ ret' = [NoCall EXCEPT !.op = "clearAllNotes", !.before = Before, !.ui = UIBefore]
    /\ UNCHANGED <<config, playhead>>

\* The operations of ScrollingStaff; activeEntries is held in noteEntries.
StoreScrolling(s) ==
    /\ noteCursorX' = s.cursor
    /\ noteEntries' = s.active
    /\ notesLayer' = s.layer
    /\ noteBuffer' = s.buffer
    /\ UNCHANGED currentBeatCount

ScrollingCall(op, arg, s) ==
    [NoCall EXCEPT !.op = op, !.arg = arg, !.error = s.error, !.before = Before,
                   !.ui = UIBefore]

QueueNotes ==
    /\ staffKind = "scrolling"
    /\ Len(noteEntries) + Len(noteBuffer) < MaxEntries
    /\ 0 - MaxCursorX <= noteCursorX /\ noteCursorX <= MaxCursorX
    /\ \E notes \in NoteSequences :
          LET s == queueNotes(ScrollingSelf, notes)
          IN  StoreScrolling(s) /\ ret' = ScrollingCall("queueNotes", notes, s)
    /\ UNCHANGED <<config, playhead>>

AdvanceNotes ==
    /\ staffKind = "scrolling"
    /\ LET s == advanceNotes(ScrollingSelf)
       IN  StoreScrolling(s) /\ ret' = ScrollingCall("advanceNotes", <<>>, s)
    /\ UNCHANGED <<config, playhead>>

ScrollingClearAllNotes ==
    /\ staffKind = "scrolling"
    /\ StoreLayout(ScrollingStaff_clearAllNotes(Before))
    /\ ret' = [NoCall EXCEPT !.op = "clearAllNotes", !.before = Before, !.ui = UIBefore]
    /\ UNCHANGED <<config, playhead>>

Next ==
    \/ RhythmDrawNote
    \/ DrawRest
    \/ DrawBeamedNotes
    \/ RhythmClearAllNotes
    \/ MusicDrawNote
    \/ DrawChord
    \/ ChangeNoteByIndex
    \/ ChangeChordByIndex
    \/ MusicClearAllNotes
    \/ QueueNotes
    \/ AdvanceNotes
    \/ ScrollingClearAllNotes

Spec == Init /\ [][Next]_vars

(***************************************************************************)
(* NoteRenderer.renderChord on its own: Init draws a chord, RenderChord     *)
(* applies the renderer to it and keeps the members as the first pass left *)
(* them beside the value returned.                                         *)
(***************************************************************************)
\* Every chord of 2..MaxChordLen members on one pitch, each member with or
\* without a sharp.
AccidentalPatternChords ==
    UNION {[1..n -> {<<"C", "4", "q">>, <<"C", "#", "4", "q">>}] : n \in 2..MaxChordLen}

\* Pitches in ascending order, one of them with an accidental.
PitchLadder ==
    <<(<<"C", "4", "q">>), (<<"D", "#", "4", "q">>), (<<"E", "4", "q">>),
      (<<"F", "4", "q">>), (<<"G", "4", "q">>), (<<"B", "4", "q">>)>>

\* The members of the ladder at the positions in S, in ascending order.
RECURSIVE LadderChord(_)
LadderChord(S) ==
    IF S = {} THEN <<>>
    ELSE LET lowest == CHOOSE x \in S : \A y \in S : x <= y
         IN  <<PitchLadder[lowest]>> \o LadderChord(S \ {lowest})

\* Every pitch-ascending chord of 2..MaxChordLen members of the ladder.
AscendingChords ==
    {LadderChord(S) : S \in {T \in SUBSET DOMAIN PitchLadder :
                                 Cardinality(T) >= 2 /\ Cardinality(T) <= MaxChordLen}}

RenderChordInputs == AccidentalPatternChords \cup AscendingChords

ChordFrame ==
    /\ staffKind = "renderer"
    /\ topNumber = 0 /\ barsCount = 0 /\ quarterNoteSpacing = 0 /\ maxBeatCount = 0
    /\ InitFields
    /\ currentBeatUIXPos = 0

InitChord ==
    /\ ChordFrame
    /\ \E notes \in RenderChordInputs : ret = [op |-> "new", arg |-> notes]

\* The members after chordOffsetConsecutiveAccidentals, before the second pass.
stackedMembers(members) == chordOffsetConsecutiveAccidentals(members.noteObjs).notes

RenderChord ==
    /\ staffKind = "renderer"
    /\ ret.op = "new"
    /\ ret' = [op |-> "renderChord", arg |-> ret.arg,
               stacked |-> stackedMembers(renderChordMembers(ret.arg, 1, <<>>)),
               res |-> renderChord(ret.arg)]
    /\ UNCHANGED <<config, currentBeatCount, noteCursorX, noteEntries, notesLayer,
                   noteBuffer, playhead>>

NextChord == RenderChord

SpecChord == InitChord /\ [][NextChord]_vars

(***************************************************************************)
(* parseNoteString on its own: Init draws a token, ParseNoteString parses  *)
(* it, writes the descriptor back as a token and parses that.              *)
(***************************************************************************)
\* Octaves as written in a token: 0..MaxOctave in decimal, and the one-digit
\* ones again with a leading zero.
OctaveStrings ==
    {octaveDigits(o) : o \in 0..MaxOctave}
    \cup {<<"0">> \o octaveDigits(o) : o \in 0..9}

\* Every token of the full-token grammar with these octaves.
ValidTokens ==
    {<<PitchNames[p]>> \o a \o o \o <<d>> :
        p \in DOMAIN PitchNames, a \in Accidentals \cup {<<>>},
        o \in OctaveStrings, d \in {"w", "h", "q", "e"}}

\* Tokens outside the grammar: pitch, accidental, octave and duration wrong
\* in turn.
MalformedTokens ==
    {<<"H", "4", "q">>, <<"C", "x", "4", "q">>, <<"C", "b", "#", "4", "q">>,
     <<"C", "q">>, <<"C", "4", "s">>, <<"C", "4">>}

InitParser ==
    /\ staffKind = "parser"
    /\ topNumber = 0 /\ barsCount = 0 /\ quarterNoteSpacing = 0 /\ maxBeatCount = 0
    /\ InitFields
    /\ currentBeatUIXPos = 0
    /\ \E token \in ValidTokens \cup MalformedTokens : ret = [op |-> "new", arg |-> token]

\* The descriptor written back as a token and parsed again; a token that
\* does not parse has no descriptor to write back.
reparsed(parsed) ==
    IF parsed.ok THEN parseNoteString(formatNoteString(parsed.note)) ELSE parsed

ParseNoteString ==
    /\ staffKind = "parser"
    /\ ret.op = "new"
    /\ ret' = [op |-> "parseNoteString", arg |-> ret.arg,
               parsed |-> parseNoteString(ret.arg),
               reparsed |-> reparsed(parseNoteString(ret.arg))]
    /\ UNCHANGED <<config, currentBeatCount, noteCursorX, noteEntries, notesLayer,
                   noteBuffer, playhead>>

NextParser == ParseNoteString

SpecParser == InitParser /\ [][NextParser]_vars

(***************************************************************************)
(* The playhead together with the draw operations of RhythmStaff, on every *)
(* accepted configuration and a few arguments of each draw operation.      *)
(***************************************************************************)
PlayheadNoteArguments ==
    {[isArray |-> FALSE, value |-> "q"], [isArray |-> FALSE, value |-> "w"],
     [isArray |-> TRUE, value |-> <<"q", "h">>]}

\* The array of quarter notes that fills an empty staff.
QuarterFill ==
    [isArray |-> TRUE, value |-> [i \in 1..(maxBeatCount \div BeatUnit) |-> "q"]]

PlayheadRestArguments == {[isArray |-> FALSE, value |-> "h"]}

PlayheadBeamCounts == {2}

StorePlayhead(u) ==
    /\ currentBeatUICount' = u.count
    /\ currentBeatUIXPos' = u.x
    /\ currentBeatUIElement' = u.element

PlayheadCall(op) ==
    [NoCall EXCEPT !.op = op, !.barGaps = ret.barGaps, !.before = Before,
                   !.ui = UIBefore]

IncrementCurrentBeatUI ==
    /\ staffKind = "rhythm"
    /\ StorePlayhead(incrementCurrentBeatUI(UIBefore))
    /\ ret' = PlayheadCall("incrementCurrentBeatUI")
    /\ UNCHANGED <<config, currentBeatCount, noteCursorX, noteEntries, notesLayer,
                   noteBuffer>>

ResetCurrentBeatUI_ClearsNotes ==
    /\ staffKind = "rhythm"
    /\ StorePlayhead(resetCurrentBeatUI(UIBefore))
    /\ StoreLayout(RhythmStaff_clearAllNotes(Before))
    /\ ret' = PlayheadCall("resetCurrentBeatUI")
    /\ UNCHANGED config

ResetCurrentBeatUI ==
    /\ staffKind = "rhythm"
    /\ StorePlayhead(resetCurrentBeatUI(UIBefore))
    /\ ret' = PlayheadCall("resetCurrentBeatUI")
    /\ UNCHANGED <<config, currentBeatCount, noteCursorX, noteEntries, notesLayer,
                   noteBuffer>>

PlayheadDrawNote ==
    /\ staffKind = "rhythm"
    /\ Len(noteEntries) < MaxEntries
    /\ \E notes \in PlayheadNoteArguments \cup {QuarterFill} :
          LET s == RhythmStaff_drawNote(Self, notes)
          IN  Store(s) /\ ret' = Call("drawNote", notes, 0, s)
    /\ UNCHANGED <<config, playhead, noteBuffer>>

PlayheadDrawRest ==
    /\ staffKind = "rhythm"
    /\ Len(noteEntries) < MaxEntries
    /\ \E rests \in PlayheadRestArguments :
          LET s == drawRest(Self, rests)
          IN  Store(s) /\ ret' = Call("drawRest", rests, 0, s)
    /\ UNCHANGED <<config, playhead, noteBuffer>>

PlayheadDrawBeamedNotes ==
    /\ staffKind = "rhythm"
    /\ Len(noteEntries) < MaxEntries
    /\ \E noteCount \in PlayheadBeamCounts :
          LET s == drawBeamedNotes(Self, "e", noteCount)
          IN  Store(s) /\ ret' = Call("drawBeamedNotes", "e", noteCount, s)
    /\ UNCHANGED <<config, playhead, noteBuffer>>

InitPlayhead == InitRhythm /\ Constructed

NextPlayhead ==
    \/ IncrementCurrentBeatUI
    \/ ResetCurrentBeatUI
    \/ PlayheadDrawNote
    \/ PlayheadDrawRest
    \/ PlayheadDrawBeamedNotes
    \/ RhythmClearAllNotes

SpecPlayhead == InitPlayhead /\ [][NextPlayhead]_vars

(***************************************************************************)
(* ScrollingStaff with a record of what has been queued.  ret.queued is    *)
(* the sequence of buffer entries queued since construction or the last    *)
(* clearAllNotes and ret.scrolledOff the number of entries taken off the   *)
(* staff since then; removed and rendered are the numbers of entries the   *)
(* last call took off and rendered.  At most MaxQueued entries are queued  *)
(* between two clearAllNotes.                                              *)
(***************************************************************************)
\* Seven notes of different pitch: more than the visible width takes.
ScaleSequence ==
    <<QueuedNote(<<"C", "4", "q">>), QueuedNote(<<"D", "4", "q">>),
      QueuedNote(<<"E", "4", "q">>), QueuedNote(<<"F", "4", "q">>),
      QueuedNote(<<"G", "4", "q">>), QueuedNote(<<"A", "4", "q">>),
      QueuedNote(<<"B", "4", "q">>)>>

\* Sequences queued: one note, a note and a chord of a second, and the scale.
ScrollSequences ==
    {<<QueuedNote(<<"C", "4", "q">>)>>,
     <<QueuedNote(<<"D", "#", "4", "h">>),
       QueuedChord(<<(<<"C", "4", "q">>), (<<"D", "4", "q">>)>>)>>,
     ScaleSequence}

NoScrollCall ==
    [op |-> "new", arg |-> <<>>, error |-> "none", queued |-> <<>>,
     scrolledOff |-> 0, removed |-> 0, rendered |-> 0,
     before |-> [beat |-> 0, cursor |-> 0, entries |-> <<>>, layer |-> <<>>,
                 buffer |-> <<>>]]

ScrollCall(op, arg, queued, s) ==
    [op |-> op, arg |-> arg, error |-> s.error, queued |-> queued,
     scrolledOff |-> ret.scrolledOff + s.removed, removed |-> s.removed,
     rendered |-> Len(noteBuffer) + Len(arg) - Len(s.buffer),
     before |-> Before]

InitScroll ==
    /\ staffKind = "scrolling"
    /\ topNumber = 0
    /\ barsCount = 0
    /\ quarterNoteSpacing = 0
    /\ maxBeatCount = 0
    /\ InitFields
    /\ currentBeatUIXPos = 0
    /\ ret = NoScrollCall

ScrollQueueNotes ==
    /\ \E notes \in ScrollSequences :
          /\ Len(ret.queued) + Len(notes) <= MaxQueued
          /\ LET s == queueNotes(ScrollingSelf, notes)
                 queued == ret.queued \o [j \in DOMAIN notes |-> bufferedEntry(notes[j])]
             IN  StoreScrolling(s) /\ ret' = ScrollCall("queueNotes", notes, queued, s)
    /\ UNCHANGED <<config, playhead>>

ScrollAdvanceNotes ==
    /\ LET s == advanceNotes(ScrollingSelf)
       IN  StoreScrolling(s) /\ ret' = ScrollCall("advanceNotes", <<>>, ret.queued, s)
    /\ UNCHANGED <<config, playhead>>

ScrollClearAllNotes ==
    /\ StoreLayout(ScrollingStaff_clearAllNotes(Before))
    /\ ret' = [NoScrollCall EXCEPT !.op = "clearAllNotes", !.before = Before]
    /\ UNCHANGED <<config, playhead>>

NextScroll ==
    \/ ScrollQueueNotes
    \/ ScrollAdvanceNotes
    \/ ScrollClearAllNotes

SpecScroll == InitScroll /\ [][NextScroll]_vars

(***************************************************************************)
(* ScrollingStaff being drained: queueNotes is called with well-formed     *)
(* notes until MaxQueued entries have been queued, clearAllNotes is not    *)
(* called, and the caller goes on calling advanceNotes for as long as a    *)
(* call changes anything.                                                  *)
(***************************************************************************)
\* Sequences queued while draining: one note and two notes.
DrainSequences ==
    {<<QueuedNote(<<"C", "4", "q">>)>>,
     <<QueuedNote(<<"C", "4", "q">>), QueuedNote(<<"D", "4", "q">>)>>}

DrainQueueNotes ==
    /\ \E notes \in DrainSequences :
          /\ Len(ret.queued) + Len(notes) <= MaxQueued
          /\ LET s == queueNotes(ScrollingSelf, notes)
                 queued == ret.queued \o [j \in DOMAIN notes |-> bufferedEntry(notes[j])]
             IN  StoreScrolling(s) /\ ret' = ScrollCall("queueNotes", notes, queued, s)
    /\ UNCHANGED <<config, playhead>>

NextDrain ==
    \/ DrainQueueNotes
    \/ ScrollAdvanceNotes

SpecDrain == InitScroll /\ [][NextDrain]_vars /\ WF_vars(ScrollAdvanceNotes)

(***************************************************************************)
(* The index operations of MusicStaff on lists of up to MaxEntries entries *)
(* built one drawNote token or one drawChord at a time.                    *)
(***************************************************************************)
\* Chords given to the index operations: a third, a second with accidentals,
\* one with a malformed member, and a single malformed member.
IndexChordArguments ==
    {<<(<<"C", "4", "q">>), (<<"E", "4", "q">>)>>,
     <<(<<"C", "#", "4", "w">>), (<<"D", "b", "b", "4", "w">>)>>,
     <<(<<"C", "4", "q">>), (<<"H", "4", "q">>)>>,
     <<(<<"H", "4", "q">>)>>}

\* Indices given to the index operations: every index of the longest list.
IndexArguments == 0..(MaxEntries - 1)

IndexDrawNote ==
    /\ staffKind = "music"
    /\ Len(noteEntries) < MaxEntries
    /\ \E note \in NoteStrings :
          LET notes == [isArray |-> FALSE, value |-> note]
              s == MusicStaff_drawNote(Self, notes)
          IN  StoreMusic(s) /\ ret' = Call("drawNote", notes, 0, s)
    /\ UNCHANGED <<config, playhead, noteBuffer>>

IndexDrawChord ==
    /\ staffKind = "music"
    /\ Len(noteEntries) < MaxEntries
    /\ \E notes \in IndexChordArguments :
          LET s == drawChord(Self, notes)
          IN  StoreMusic(s) /\ ret' = Call("drawChord", notes, 0, s)
    /\ UNCHANGED <<config, playhead, noteBuffer>>

IndexChangeNote ==
    /\ staffKind = "music"
    /\ \E note \in NoteStrings, noteIndex \in IndexArguments :
          LET s == changeNoteByIndex(Self, note, noteIndex)
          IN  StoreMusic(s) /\ ret' = Call("changeNoteByIndex", note, noteIndex, s)
    /\ UNCHANGED <<config, playhead, noteBuffer>>

IndexChangeChord ==
    /\ staffKind = "music"
    /\ \E notes \in IndexChordArguments, chordIndex \in IndexArguments :
          LET s == changeChordByIndex(Self, notes, chordIndex)
          IN  StoreMusic(s) /\ ret' = Call("changeChordByIndex", notes, chordIndex, s)
    /\ UNCHANGED <<config, playhead, noteBuffer>>

InitIndex == InitMusic

NextIndex ==
    \/ IndexDrawNote
    \/ IndexDrawChord
    \/ IndexChangeNote
    \/ IndexChangeChord

SpecIndex == InitIndex /\ [][NextIndex]_vars

(***************************************************************************)
(* Vocabulary of the properties.                                           *)
(***************************************************************************)
IsRhythm == staffKind = "rhythm" /\ Constructed

\* The last call was RhythmStaff.drawNote or RhythmStaff.drawRest.
IsTokenCall == IsRhythm /\ ret.op \in {"drawNote", "drawRest"}

IsBeamCall == IsRhythm /\ ret.op = "drawBeamedNotes"

\* The last call left the layout state as it found it.
LayoutUnchanged ==
    /\ currentBeatCount = ret.before.beat
    /\ noteCursorX = ret.before.cursor
    /\ noteEntries = ret.before.entries
    /\ notesLayer = ret.before.layer

\* Beat value, in sixteenths, of a filler rest.
restBeatValue == [REST_HALF |-> 8, REST_QUARTER |-> 4, REST_EIGHTH |-> 2]

RECURSIVE SumRestBeats(_)
SumRestBeats(rests) ==
    IF rests = <<>> THEN 0
    ELSE restBeatValue[Head(rests).glyph] + SumRestBeats(Tail(rests))

\* Largest-fits-first decomposition of r sixteenths over half, quarter, eighth.
GreedyRestGlyphs(r) ==
    [i \in 1..(r \div 8) |-> "REST_HALF"]
    \o [i \in 1..((r % 8) \div 4) |-> "REST_QUARTER"]
    \o [i \in 1..((r % 4) \div 2) |-> "REST_EIGHTH"]

\* The bar, counted from 0, that beat b lies in.
BarOf(b) == b \div BarBeats

(***************************************************************************)
(* C1.  Beat-capacity invariant: whatever calls were made on a RhythmStaff *)
(* built with numerator N and B bars, 0 <= currentBeatCount <=             *)
(* maxBeatCount = B x N.                                                   *)
(***************************************************************************)
C1_BeatCapacity ==
    IsRhythm =>
        /\ maxBeatCount = barsCount * topNumber * BeatUnit
        /\ 0 <= currentBeatCount
        /\ currentBeatCount <= maxBeatCount

(***************************************************************************)
(* C2.  Exactly N x B beats are accepted before MaxBeatError: a call is    *)
(* rejected with MaxBeatError only when exactly N x B beats (tokens plus   *)
(* filler rests) have been counted, never more and never fewer.            *)
(***************************************************************************)
C2_ExactlyCapacityAccepted ==
    (IsRhythm /\ ret.error = "MaxBeatError") => currentBeatCount = maxBeatCount

(***************************************************************************)
(* C3.  Last-bar overflow: when a token given to drawNote / drawRest       *)
(* overflows the last bar, the filler rests are emitted, the bar advance   *)
(* fails with MaxBeatError and the token is not placed: the entry list     *)
(* ends with the fillers and the beat count stays at the bar's end.  The   *)
(* scenario of the claim is numerator 4, one bar, drawNote([q, q, q, h]).  *)
(***************************************************************************)
C3_LastBarOverflowFails ==
    IsTokenCall =>
        \A k \in DOMAIN ret.fills :
            ret.fills[k].after >= maxBeatCount =>
                /\ ret.error = "MaxBeatError"
                /\ ret.failedAt > 0
                /\ currentBeatCount = ret.fills[k].after
                /\ noteEntries # <<>>
                /\ noteEntries[Len(noteEntries)] \in
                       {ret.fills[k].rests[j] : j \in DOMAIN ret.fills[k].rests}

(***************************************************************************)
(* C4.  Overflow filling: whenever drawNote / drawRest gets a token whose  *)
(* beat value exceeds the beats remaining in the bar, the filler rests sum *)
(* to exactly that remainder, are the largest-fits-first choice from half, *)
(* quarter and eighth, and leave currentBeatCount on the bar boundary,     *)
(* where the token is then placed.                                         *)
(***************************************************************************)
C4_FillersExact ==
    IsTokenCall =>
        \A k \in DOMAIN ret.fills :
            LET f == ret.fills[k]
            IN  /\ SumRestBeats(f.rests) = f.remaining
                /\ [j \in DOMAIN f.rests |-> f.rests[j].glyph] = GreedyRestGlyphs(f.remaining)
                /\ f.after = f.start + f.remaining
                /\ f.after % BarBeats = 0

(***************************************************************************)
(* C5.  drawBeamedNotes never straddles a bar line: the beats one call     *)
(* adds do not carry currentBeatCount past the end of the bar in which     *)
(* the group starts.                                                       *)
(***************************************************************************)
C5_BeamStaysInBar ==
    (IsBeamCall /\ ret.error = "none") =>
        currentBeatCount <= (BarOf(ret.before.beat) + 1) * BarBeats

(***************************************************************************)
(* C6.  drawBeamedNotes advances state only for the capped count: the      *)
(* number of noteheads is min(count, beatsRemainingInBar / beatValue), the *)
(* beat count grows by that number times the beat value and the cursor by  *)
(* that number times the duration's width, and an oversized request        *)
(* returns normally.                                                       *)
(***************************************************************************)
C6_BeamCappedCount ==
    (IsBeamCall /\ ret.count >= 2 /\ ret.before.beat < maxBeatCount) =>
        LET beatValue == durationBeatValueMap[ret.arg]
            remaining == BarBeats - (ret.before.beat % BarBeats)
            group == noteEntries[Len(noteEntries)]
        IN  /\ ret.error = "none"
            /\ ret.drawn * beatValue = Min(ret.count * beatValue, remaining)
            /\ currentBeatCount = ret.before.beat + ret.drawn * beatValue
            /\ noteEntries = Append(ret.before.entries, group)
            /\ group.heads = ret.drawn
            /\ noteCursorX = group.x + ret.drawn * beatValue * quarterNoteSpacing

(***************************************************************************)
(* C7.  A full staff rejects further beats and stays usable.               *)
(*                                                                         *)
(* As claimed: when currentBeatCount >= maxBeatCount, a single-token       *)
(* drawNote or drawRest and any drawBeamedNotes call fails with            *)
(* MaxBeatError and leaves the beat count, cursor and entry list as they   *)
(* were.                                                                   *)
(***************************************************************************)
\* The last call was made on a staff whose beat capacity was used up.
CalledOnFullStaff == IsRhythm /\ ret.before.beat >= maxBeatCount

IsSingleTokenCall == IsTokenCall /\ ~ret.arg.isArray

C7_AsClaimed ==
    (CalledOnFullStaff /\ (IsSingleTokenCall \/ IsBeamCall)) =>
        (ret.error = "MaxBeatError" /\ LayoutUnchanged)

(***************************************************************************)
(* C7, amended.  When currentBeatCount >= maxBeatCount, a drawNote or      *)
(* drawRest of one well-formed duration token and a drawBeamedNotes call   *)
(* with count >= 2 fail with MaxBeatError; a malformed token fails with    *)
(* ParseError and a count < 2 with StateError, both raised before the      *)
(* capacity test.  Every one of these calls leaves beat count, cursor,     *)
(* entry list and notes layer as before; no step repeats such a failed     *)
(* call with another outcome; and right after clearAllNotes a well-formed  *)
(* single-token call or a beam call with count >= 2 succeeds.              *)
(***************************************************************************)
C7_Rejected ==
    (CalledOnFullStaff /\ (IsSingleTokenCall \/ IsBeamCall)) =>
        /\ LayoutUnchanged
        /\ ret.error =
             IF IsBeamCall
             THEN (IF ret.count < 2 THEN "StateError" ELSE "MaxBeatError")
             ELSE (IF parseDurationNoteString(ret.arg.value).ok
                   THEN "MaxBeatError" ELSE "ParseError")

C7_SameCallFailsAgain ==
    (C7_Rejected /\ CalledOnFullStaff /\ (IsSingleTokenCall \/ IsBeamCall)
        /\ ret'.op = ret.op /\ ret'.arg = ret.arg /\ ret'.count = ret.count)
    => ret' = ret

C7_UsableAfterClear ==
    (IsRhythm /\ ret.op = "clearAllNotes") =>
        /\ (ret'.op \in {"drawNote", "drawRest"} /\ ~ret'.arg.isArray
                /\ parseDurationNoteString(ret'.arg.value).ok)
             => (ret'.error = "none" /\ currentBeatCount' > 0)
        /\ (ret'.op = "drawBeamedNotes" /\ ret'.count >= 2)
             => (ret'.error = "none" /\ currentBeatCount' > 0)

C7_FullStaffRejects ==
    [][C7_Rejected' /\ C7_SameCallFailsAgain /\ C7_UsableAfterClear]_vars

\* A single rest is refused on a full staff that holds entries.
C7_Witness ==
    /\ CalledOnFullStaff
    /\ ret.op = "drawRest"
    /\ ~ret.arg.isArray
    /\ ret.error = "MaxBeatError"
    /\ noteEntries # <<>>
    /\ LayoutUnchanged

(***************************************************************************)
(* C8.  Batch calls are best-effort, in input order.  When drawNote or     *)
(* drawRest of RhythmStaff, or drawNote of MusicStaff, is given an array   *)
(* and fails at member k (counted from 0) with ParseError or MaxBeatError, *)
(* the instance is left exactly as a successful call with members 0..k-1   *)
(* leaves it: those members, with the filler rests they caused, are in the *)
(* entry list and in the notes layer, beat count and cursor are advanced   *)
(* for them alone, the failing member adds nothing and no later member is  *)
(* looked at.  The failing member is the first that is malformed or that   *)
(* finds the staff full.                                                   *)
(***************************************************************************)
IsBatchFailure ==
    /\ ret.op \in {"drawNote", "drawRest"}
    /\ ret.arg.isArray
    /\ ret.error # "none"

\* The instance as the last call found it.
SelfBefore ==
    [beat |-> ret.before.beat, cursor |-> ret.before.cursor,
     entries |-> ret.before.entries, layer |-> ret.before.layer,
     noteGroups |-> <<>>, restGroups |-> <<>>, error |-> "none",
     failedAt |-> 0, fills |-> <<>>, drawn |-> 0, created |-> 0,
     newBars |-> 0]

\* The same operation, started from the same state, on the members before
\* the failing one.
PrefixCall ==
    LET prefix == [isArray |-> TRUE,
                   value |-> SubSeq(ret.arg.value, 1, ret.failedAt - 1)]
    IN  IF ~IsRhythm THEN MusicStaff_drawNote(SelfBefore, prefix)
        ELSE IF ret.op = "drawNote" THEN RhythmStaff_drawNote(SelfBefore, prefix)
        ELSE drawRest(SelfBefore, prefix)

\* The groups of the entries added by the last call.
AddedEntryGroups ==
    LET added == SubSeq(noteEntries, Len(ret.before.entries) + 1, Len(noteEntries))
    IN  IF IsRhythm THEN added ELSE [j \in DOMAIN added |-> added[j].gElement]

FailingMemberFails ==
    LET member == ret.arg.value[ret.failedAt]
    IN  IF ret.error = "ParseError"
        THEN (IF IsRhythm THEN ~parseDurationNoteString(member).ok
                          ELSE ~parseNoteString(member).ok)
        ELSE /\ ret.error = "MaxBeatError"
             /\ IsRhythm
             /\ parseDurationNoteString(member).ok
             /\ currentBeatCount >= maxBeatCount

C8_BatchBestEffort ==
    IsBatchFailure =>
        /\ ret.failedAt \in 1..Len(ret.arg.value)
        /\ FailingMemberFails
        /\ ret.drawn = ret.failedAt - 1
        /\ PrefixCall.error = "none"
        /\ PrefixCall.drawn = ret.drawn
        /\ currentBeatCount = PrefixCall.beat
        /\ noteCursorX = PrefixCall.cursor
        /\ noteEntries = PrefixCall.entries
        /\ notesLayer = PrefixCall.layer
        /\ notesLayer = ret.before.layer \o AddedEntryGroups
        /\ Len(AddedEntryGroups) >= ret.drawn

\* The documented batch of four quarters and a whole, on a staff that the
\* quarters fill: the whole is refused and the quarters stay.
C8_Witness ==
    /\ IsRhythm
    /\ IsBatchFailure
    /\ ret.op = "drawRest"
    /\ ret.error = "MaxBeatError"
    /\ ret.failedAt = 5
    /\ Len(noteEntries) = Len(ret.before.entries) + 4

(***************************************************************************)
(* C9.  Too few members.                                                   *)
(*                                                                         *)
(* As claimed: drawBeamedNotes with count < 2, and drawChord and           *)
(* changeChordByIndex with fewer than 2 note tokens, fail with StateError  *)
(* before any drawing and leave beat count, cursor and entry list as they  *)
(* were.                                                                   *)
(***************************************************************************)
TooFewMembers ==
    \/ IsBeamCall /\ ret.count < 2
    \/ ~IsRhythm /\ ret.op \in {"drawChord", "changeChordByIndex"} /\ Len(ret.arg) < 2

C9_AsClaimed ==
    TooFewMembers => (ret.error = "StateError" /\ ret.created = 0 /\ LayoutUnchanged)

(***************************************************************************)
(* C9, amended.  drawBeamedNotes with count < 2 and drawChord with fewer   *)
(* than 2 note tokens fail with StateError.  changeChordByIndex with fewer *)
(* than 2 note tokens fails with StateError when its index is below the    *)
(* number of entries, and with BoundsError, raised first, when the index   *)
(* is that number or more.  In every case no group has been created and    *)
(* beat count, cursor, entry list and notes layer are as before.           *)
(***************************************************************************)
C9_TooFewMembersRejected ==
    TooFewMembers =>
        /\ ret.created = 0
        /\ LayoutUnchanged
        /\ ret.error =
             IF ret.op = "changeChordByIndex" /\ ret.count >= Len(ret.before.entries)
             THEN "BoundsError" ELSE "StateError"

\* A chord of one note is refused on a staff that holds an entry.
C9_Witness ==
    /\ ~IsRhythm
    /\ ret.op = "drawChord"
    /\ Len(ret.arg) = 1
    /\ ret.error = "StateError"
    /\ noteEntries # <<>>
    /\ LayoutUnchanged

(***************************************************************************)
(* C10.  changeNoteByIndex with an index outside 0..length-1, a negative   *)
(* index and any index on an empty staff included, fails with BoundsError  *)
(* and leaves every entry, the entry count and the cursor as they were.    *)
(***************************************************************************)
IndexOutOfRange ==
    /\ ~IsRhythm
    /\ ret.op = "changeNoteByIndex"
    /\ ret.count \notin 0..(Len(ret.before.entries) - 1)

C10_OutOfRangeIsBoundsError ==
    IndexOutOfRange => (ret.error = "BoundsError" /\ LayoutUnchanged)

(***************************************************************************)
(* C11.  After clearAllNotes on a RhythmStaff, a MusicStaff or a           *)
(* ScrollingStaff, every field of the layout state has the value it has on *)
(* a fresh instance: the beat counter and the cursor are 0, the entry list *)
(* and the notes layer are empty and so is the pending buffer of a         *)
(* ScrollingStaff.  The draw operations read no other mutable field, so    *)
(* they behave after it as on a fresh instance.                            *)
(***************************************************************************)
C11_ClearResetsLayout ==
    ret.op = "clearAllNotes" => Before = NoCall.before

\* clearAllNotes has emptied a ScrollingStaff that had active entries, a
\* pending buffer and a cursor away from 0.
C11_Witness ==
    /\ ret.op = "clearAllNotes"
    /\ staffKind = "scrolling"
    /\ ret.before.entries # <<>>
    /\ ret.before.buffer # <<>>
    /\ ret.before.cursor # 0

\* Vocabulary of the playhead claims.
IsIncrement == ret.op = "incrementCurrentBeatUI"

IsReset == ret.op = "resetCurrentBeatUI"

IsDrawOrClear == ret.op \in {"drawNote", "drawRest", "drawBeamedNotes", "clearAllNotes"}

\* The increment was called with the playhead's count below maxBeatCount.
IncrementedBelowMax == IsIncrement /\ ret.ui.count * BeatUnit < maxBeatCount

\* The increment was called with the playhead's count at maxBeatCount.
IncrementedAtMax == IsIncrement /\ ret.ui.count * BeatUnit >= maxBeatCount

PlayheadShown == currentBeatUIElement.created /\ currentBeatUIElement.display = ""

PlayheadHidden == currentBeatUIElement.created /\ currentBeatUIElement.display = "none"

(***************************************************************************)
(* C12.  incrementCurrentBeatUI and resetCurrentBeatUI leave               *)
(* currentBeatCount, the note cursor, the entry list and the notes layer   *)
(* as they were; drawNote, drawRest, drawBeamedNotes and clearAllNotes,    *)
(* whether they return or throw, leave the playhead's count, x position    *)
(* and element (its visibility and x attribute) as they were.              *)
(***************************************************************************)
C12_PlayheadIndependent ==
    /\ (IsIncrement \/ IsReset) => LayoutUnchanged
    /\ IsDrawOrClear => UIBefore = ret.ui

\* clearAllNotes has emptied a staff with entries while the playhead stood,
\* shown, past its first beat.
C12_Witness ==
    /\ ret.op = "clearAllNotes"
    /\ ret.before.entries # <<>>
    /\ currentBeatUICount > 1
    /\ PlayheadShown

(***************************************************************************)
(* C13 as stated: every incrementCurrentBeatUI call made with the count    *)
(* below maxBeatCount moves x by one quarter-note width, plus one bar gap  *)
(* when it moves the count from kN to kN+1.                                *)
(***************************************************************************)
C13_AsClaimed ==
    IncrementedBelowMax =>
        currentBeatUIXPos = ret.ui.x + quarterNoteSpacing * BeatUnit
            + (IF ret.ui.count > 0 /\ ret.ui.count % topNumber = 0
               THEN BAR_SPACING * BeatUnit ELSE 0)

(***************************************************************************)
(* C13, amended.  An incrementCurrentBeatUI call made with the count c     *)
(* below maxBeatCount sets the count to c + 1; the first one (c = 0)       *)
(* leaves x at the start position, every later one moves x by one          *)
(* quarter-note width, plus one bar gap when c is a positive multiple of   *)
(* the numerator.                                                          *)
(***************************************************************************)
C13_AdvanceAfterFirstCall ==
    IncrementedBelowMax =>
        /\ currentBeatUICount = ret.ui.count + 1
        /\ currentBeatUIXPos = ret.ui.x
              + (IF ret.ui.count = 0 THEN 0 ELSE quarterNoteSpacing * BeatUnit)
              + (IF ret.ui.count > 0 /\ ret.ui.count % topNumber = 0
                 THEN BAR_SPACING * BeatUnit ELSE 0)

\* The increment has moved the playhead from the last beat of a bar to the
\* first beat of the next.
C13_Witness ==
    /\ IncrementedBelowMax
    /\ ret.ui.count > 0
    /\ ret.ui.count % topNumber = 0
    /\ currentBeatUIXPos > ret.ui.x + quarterNoteSpacing * BeatUnit

(***************************************************************************)
(* C14 as stated: the count never exceeds maxBeatCount; an increment at    *)
(* the maximum hides the playhead and changes neither count nor x; a reset *)
(* sets the count to 0 and x to the start position and shows the playhead  *)
(* again.                                                                  *)
(***************************************************************************)
C14_AsClaimed ==
    /\ currentBeatUICount * BeatUnit <= maxBeatCount
    /\ IncrementedAtMax =>
          (PlayheadHidden /\ currentBeatUICount = ret.ui.count
              /\ currentBeatUIXPos = ret.ui.x)
    /\ (IsReset /\ ret.ui.element.created) =>
          (currentBeatUICount = 0 /\ currentBeatUIXPos = CURRENT_BEAT_UI_START_X_POS
              /\ PlayheadShown)

(***************************************************************************)
(* C14, amended.  The count never exceeds maxBeatCount; an increment at    *)
(* the maximum hides the playhead and changes neither count nor x; a reset *)
(* sets the count to 0 and x to the start position and, when the element   *)
(* exists, hides it at the start position; an increment below the maximum  *)
(* (so the first one after a reset) shows it at the playhead's x.          *)
(***************************************************************************)
C14_HiddenUntilNextIncrement ==
    /\ currentBeatUICount * BeatUnit <= maxBeatCount
    /\ IncrementedAtMax =>
          (PlayheadHidden /\ currentBeatUICount = ret.ui.count
              /\ currentBeatUIXPos = ret.ui.x)
    /\ IsReset =>
          /\ currentBeatUICount = 0
          /\ currentBeatUIXPos = CURRENT_BEAT_UI_START_X_POS
          /\ IF ret.ui.element.created
             THEN PlayheadHidden
                  /\ currentBeatUIElement.x = CURRENT_BEAT_UI_START_X_POS
             ELSE currentBeatUIElement = NoElement
    /\ IncrementedBelowMax =>
          (PlayheadShown /\ currentBeatUIElement.x = currentBeatUIXPos)

\* A reset of a playhead that an increment at the maximum had hidden.
C14_Witness ==
    /\ IsReset
    /\ ret.ui.element.created
    /\ ret.ui.element.display = "none"
    /\ ret.ui.count * BeatUnit = maxBeatCount

(***************************************************************************)
(* C15.  The RhythmStaff constructor returns exactly when the numerator is *)
(* 3 or 4 and barsCount is 1, 2 or 3; for every other pair it throws, the  *)
(* instance does not exist and no operation follows; every constructed     *)
(* instance has maxBeatCount = barsCount x numerator (here in sixteenths). *)
(***************************************************************************)
C15_ConfigChecked ==
    staffKind = "rhythm" =>
        /\ Constructed <=> (topNumber \in {3, 4} /\ barsCount \in 1..3)
        /\ Constructed => maxBeatCount = barsCount * topNumber * BeatUnit
        /\ ~Constructed => (ret.op = "new" /\ ret.error = "ConfigError")

\* The constructor has thrown for a supported numerator with four bars.
C15_Witness ==
    /\ staffKind = "rhythm"
    /\ ret.op = "new"
    /\ ret.error = "ConfigError"
    /\ topNumber \in {3, 4}
    /\ barsCount = 4

\* Vocabulary of the chord claims; i indexes the members of the chord ret.arg.
Rendered == ret.op = "renderChord"

HasAccidental(i) == parseNoteString(ret.arg[i]).note.accidental # ""

\* Length of the run of consecutive accidental-bearing members that ends at
\* member i; 0 when member i has no accidental.
RECURSIVE RunIndex(_)
RunIndex(i) ==
    IF i < 1 \/ ~HasAccidental(i) THEN 0 ELSE 1 + RunIndex(i - 1)

Max(a, b) == IF a >= b THEN a ELSE b

RECURSIVE LongestRunUpTo(_)
LongestRunUpTo(i) == IF i < 1 THEN 0 ELSE Max(RunIndex(i), LongestRunUpTo(i - 1))

LongestRun == LongestRunUpTo(Len(ret.arg))

\* Base units member i is pushed left: its place in its run, counted again
\* from 1 after every CHORD_MAX_CONSECUTIVE_ACCIDENTALS members.
StackingUnits(i) ==
    IF RunIndex(i) = 0 THEN 0
    ELSE ((RunIndex(i) - 1) % CHORD_MAX_CONSECUTIVE_ACCIDENTALS) + 1

\* The push of member i as the first pass left it: the accidental glyph has
\* one base unit built in, the transform of its element carries the rest.
StackingPush(i) ==
    LET element == ret.stacked[i].gElement
    IN  IF element.accidental = "none" THEN 0
        ELSE ACCIDENTAL_OFFSET_X
             + (IF element.accidentalTransform.set THEN element.accidentalTransform.x ELSE 0)

(***************************************************************************)
(* C16.  renderChord on a chord of two or more members none of which has   *)
(* an accidental returns accidentalOffset = 0.                             *)
(***************************************************************************)
C16_NoAccidentalNoOffset ==
    (Rendered /\ \A i \in DOMAIN ret.arg : ~HasAccidental(i)) =>
        ret.res.accidentalOffset = 0

\* A chord of MaxChordLen members without accidentals has been rendered.
C16_Witness ==
    /\ Rendered
    /\ Len(ret.arg) = MaxChordLen
    /\ \A i \in DOMAIN ret.arg : ~HasAccidental(i)
    /\ ret.res.ok

(***************************************************************************)
(* C17.  After the stacking pass the i-th member of a run of consecutive   *)
(* accidental-bearing members is pushed i base units left for i up to      *)
(* CHORD_MAX_CONSECUTIVE_ACCIDENTALS, the member after the cap is pushed   *)
(* one base unit again, and a member without an accidental is not pushed   *)
(* and ends the run, so the next accidental is pushed one base unit.       *)
(***************************************************************************)
C17_StackingByRunPosition ==
    Rendered =>
        \A i \in DOMAIN ret.arg :
            StackingPush(i) = StackingUnits(i) * ACCIDENTAL_OFFSET_X

\* A rendered chord with a run longer than the cap: its member after the cap
\* is pushed one base unit, the one before it the full cap.
C17_Witness ==
    /\ Rendered
    /\ \E i \in DOMAIN ret.arg :
          /\ RunIndex(i) = CHORD_MAX_CONSECUTIVE_ACCIDENTALS + 1
          /\ StackingPush(i) = ACCIDENTAL_OFFSET_X
          /\ StackingPush(i - 1) = CHORD_MAX_CONSECUTIVE_ACCIDENTALS * ACCIDENTAL_OFFSET_X

\* The most negative cumulative stacking offset of the chord.
MostNegativeStackingOffset ==
    ACCIDENTAL_OFFSET_X * Min(CHORD_MAX_CONSECUTIVE_ACCIDENTALS, LongestRun)

(***************************************************************************)
(* C18 as stated: the accidentalOffset renderChord returns is the most     *)
(* negative cumulative stacking offset reached, the base unit times        *)
(* min(cap, longest run).                                                  *)
(***************************************************************************)
C18_AsClaimed ==
    Rendered => ret.res.accidentalOffset = MostNegativeStackingOffset

(***************************************************************************)
(* C18, amended.  The accidentalOffset renderChord returns is the negation *)
(* of the most negative cumulative stacking offset reached: a number >= 0, *)
(* the size of the base unit times min(cap, longest run).                  *)
(***************************************************************************)
C18_ReturnsMagnitude ==
    Rendered =>
        /\ ret.res.accidentalOffset = 0 - MostNegativeStackingOffset
        /\ ret.res.accidentalOffset >= 0

\* A rendered chord whose longest run is longer than the cap and which also
\* has a member without an accidental.
C18_Witness ==
    /\ Rendered
    /\ LongestRun > CHORD_MAX_CONSECUTIVE_ACCIDENTALS
    /\ \E i \in DOMAIN ret.arg : ~HasAccidental(i)
    /\ ret.res.accidentalOffset > 0

\* Diatonic step from member i - 1 to member i.
NameDiff(i) ==
    LET curr == parseNoteString(ret.arg[i]).note
        prev == parseNoteString(ret.arg[i - 1]).note
    IN  getNameOctaveIdx(curr.name, curr.octave) - getNameOctaveIdx(prev.name, prev.octave)

PitchAscending == \A i \in 2..Len(ret.arg) : NameDiff(i) > 0

\* The lateral shift of member i in the chord group returned.
LateralShift(i) == ret.res.noteGroup.members[i].x

(***************************************************************************)
(* C19 as stated: in a pitch-ascending chord the second member of every    *)
(* pair of consecutive members is shifted right by the close-note offset   *)
(* when the pair is one diatonic step apart, and by zero otherwise.        *)
(***************************************************************************)
C19_AsClaimed ==
    (Rendered /\ PitchAscending) =>
        \A i \in 2..Len(ret.arg) :
            LateralShift(i) = IF NameDiff(i) = 1 THEN NOTE_SPACING \div 2 ELSE 0

(***************************************************************************)
(* C19, amended.  In a pitch-ascending chord the first member is not       *)
(* shifted, and the second member of every pair of consecutive members is  *)
(* shifted right by the close-note offset when the pair is one diatonic    *)
(* step apart and the first member of the pair was not itself shifted, and *)
(* by zero otherwise.                                                      *)
(***************************************************************************)
C19_ShiftUnlessPredecessorShifted ==
    (Rendered /\ PitchAscending) =>
        /\ LateralShift(1) = 0
        /\ \A i \in 2..Len(ret.arg) :
              LateralShift(i) =
                  IF NameDiff(i) = 1 /\ LateralShift(i - 1) = 0
                  THEN NOTE_SPACING \div 2 ELSE 0

\* A rendered ascending chord with three members a step apart each: the
\* second is shifted, the third is not, and a later second is shifted again.
C19_Witness ==
    /\ Rendered
    /\ PitchAscending
    /\ \E i \in 3..Len(ret.arg) :
          /\ NameDiff(i) = 1 /\ NameDiff(i - 1) = 1
          /\ LateralShift(i - 1) > 0
          /\ LateralShift(i) = 0
    /\ \E i \in 2..Len(ret.arg) : NameDiff(i) > 1

\* The stem renderNote is to give a note of this duration: a separate line for
\* half and quarter notes only, down when the note flips.
ClaimedStem(duration, flip) ==
    IF duration \in {"h", "q"} THEN (IF flip THEN "down" ELSE "up") ELSE "none"

ClaimedGlyph(duration, flip) ==
    CASE duration = "w" -> "NOTE_HEAD_WHOLE"
      [] duration = "h" -> "NOTE_HEAD_HALF"
      [] duration = "q" -> "NOTE_HEAD_QUARTER"
      [] duration = "e" -> IF flip THEN "EIGHTH_NOTE_FLIPPED" ELSE "EIGHTH_NOTE"

(***************************************************************************)
(* C20 as stated: every note group drawn by renderNote holds one notehead  *)
(* glyph chosen by duration (the flipped eighth exactly when the note      *)
(* flips), a separate stem line exactly when the note is a half or a       *)
(* quarter, in the direction of the flip flag, and no stem line when it is *)
(* an eighth.  On a RhythmStaff notes never flip.                          *)
(***************************************************************************)
C20_AsClaimed ==
    /\ IsRhythm =>
          \A i \in DOMAIN notesLayer :
              notesLayer[i].tag = "note" =>
                  /\ notesLayer[i].heads = 1
                  /\ notesLayer[i].glyph \in
                         {ClaimedGlyph(d, FALSE) : d \in {"w", "h", "q", "e"}}
                  /\ notesLayer[i].stems =
                         IF notesLayer[i].glyph \in {"NOTE_HEAD_HALF", "NOTE_HEAD_QUARTER"}
                         THEN 1 ELSE 0
    /\ staffKind = "music" =>
          \A i \in DOMAIN noteEntries :
              noteEntries[i].gElement.tag = "note" =>
                  LET duration == noteEntries[i].note.duration
                      flip == shouldNoteFlip(noteEntries[i].yPos)
                  IN  /\ noteEntries[i].gElement.glyph = ClaimedGlyph(duration, flip)
                      /\ noteEntries[i].gElement.stem = ClaimedStem(duration, flip)

(***************************************************************************)
(* C21.  Parser round trip: every token of the full-token grammar parses,  *)
(* and writing its descriptor back as a token and parsing that token gives *)
(* the same descriptor; a token outside the grammar does not parse.        *)
(***************************************************************************)
C21_ParserRoundTrip ==
    ret.op = "parseNoteString" =>
        /\ ret.parsed.ok <=> ret.arg \in ValidTokens
        /\ ret.parsed.ok =>
              (ret.reparsed.ok /\ ret.reparsed.note = ret.parsed.note)

\* A parsed token with a double flat on the pitch B and a two-digit octave
\* with a leading zero, which is not the token its descriptor is written as.
C21_Witness ==
    /\ ret.op = "parseNoteString"
    /\ ret.parsed.ok
    /\ ret.parsed.note.name = "B"
    /\ ret.parsed.note.accidental = "bb"
    /\ ret.parsed.note.octave > 0
    /\ Len(ret.arg) = 6
    /\ formatNoteString(ret.parsed.note) # ret.arg

Shifted(i) == LateralShift(i) > 0

(***************************************************************************)
(* C22.  Close-note chains: in a rendered pitch-ascending chord every      *)
(* member is shifted by nothing or by exactly one close-note offset, the   *)
(* first member is not shifted, no member is shifted when its predecessor  *)
(* is, and of every two consecutive members one diatonic step apart        *)
(* exactly one is shifted.                                                 *)
(***************************************************************************)
C22_ChainsAlternate ==
    (Rendered /\ PitchAscending) =>
        /\ ~Shifted(1)
        /\ \A i \in DOMAIN ret.arg : LateralShift(i) \in {0, NOTE_SPACING \div 2}
        /\ \A i \in 2..Len(ret.arg) :
              /\ Shifted(i - 1) => ~Shifted(i)
              /\ NameDiff(i) = 1 => (Shifted(i) # Shifted(i - 1))

\* A rendered chord whose last four members are a chain of seconds and which
\* ends on a resolved pair: the last member is shifted.
C22_Witness ==
    /\ Rendered
    /\ PitchAscending
    /\ Len(ret.arg) >= 4
    /\ \A i \in (Len(ret.arg) - 2)..Len(ret.arg) : NameDiff(i) = 1
    /\ Shifted(Len(ret.arg))
    /\ ~Shifted(Len(ret.arg) - 1)

\* The last call was a drawNote or drawRest of one token that returned.
PlacedOneToken == IsSingleTokenCall /\ ret.error = "none"

\* Beats, in sixteenths, of the token of a single-token call.
PlacedBeatValue == durationBeatValueMap[ret.arg.value]

(***************************************************************************)
(* C23 as stated: the note or rest a drawNote / drawRest of one token      *)
(* places, after any filler rests and bar advance, starts and ends inside  *)
(* one bar: its beats are at most the bar's capacity N and its first and   *)
(* last beat lie in the same bar.                                          *)
(***************************************************************************)
C23_AsClaimed ==
    PlacedOneToken =>
        /\ PlacedBeatValue <= BarBeats
        /\ BarOf(currentBeatCount - PlacedBeatValue) = BarOf(currentBeatCount - 1)

(***************************************************************************)
(* C24 as stated: a bar gap is added to the cursor only when a further bar *)
(* exists, so the number of bar gaps added since construction or the last  *)
(* clearAllNotes is at most barsCount - 1.                                 *)
(***************************************************************************)
C24_AsClaimed == IsRhythm => ret.barGaps <= barsCount - 1

\* The outcome of the last call had it been made, from the same state and with
\* the same argument, through the other of drawNote and drawRest.
OtherTokenCall ==
    IF ret.op = "drawNote" THEN drawRest(SelfBefore, ret.arg)
    ELSE RhythmStaff_drawNote(SelfBefore, ret.arg)

(***************************************************************************)
(* C25: drawNote and drawRest do the same beat accounting.  After a call   *)
(* of either with a token or a batch, the other one, from the same state   *)
(* and with the same argument, ends in the same currentBeatCount, the same *)
(* cursor, the same number of entries (filler rests included) and the same *)
(* error, at the same member of the batch.                                 *)
(***************************************************************************)
C25_SameBeatAccounting ==
    IsTokenCall =>
        /\ OtherTokenCall.beat = currentBeatCount
        /\ OtherTokenCall.cursor = noteCursorX
        /\ Len(OtherTokenCall.entries) = Len(noteEntries)
        /\ OtherTokenCall.error = ret.error
        /\ OtherTokenCall.failedAt = ret.failedAt

\* A drawRest of a batch that made filler rests and a bar gap before it was
\* stopped by the max-beat test.
C25_Witness ==
    /\ IsTokenCall
    /\ ret.op = "drawRest"
    /\ ret.arg.isArray
    /\ Len(ret.fills) > 0
    /\ ret.newBars > 0
    /\ ret.error = "MaxBeatError"

\* The width of a bar gap, in the unit of the cursor.
BarGapWidth == BAR_SPACING * BeatUnit

(***************************************************************************)
(* C26: in every state of a rhythm staff the note cursor equals            *)
(* currentBeatCount times quarterNoteSpacing plus the number of bar gaps   *)
(* added since construction or the last clearAllNotes times the width of   *)
(* a bar gap, and it is 0 after clearAllNotes.                             *)
(***************************************************************************)
C26_CursorMatchesBeats ==
    IsRhythm =>
        /\ noteCursorX = currentBeatCount * quarterNoteSpacing
                             + ret.barGaps * BarGapWidth
        /\ ret.op = "clearAllNotes" => noteCursorX = 0

\* A state made by drawNote, filler rests, drawRest and drawBeamedNotes
\* together, with at least one bar gap in the cursor.
C26_Witness ==
    /\ IsRhythm
    /\ ret.barGaps > 0
    /\ \E i, j, k, l \in DOMAIN noteEntries :
          /\ noteEntries[i].tag = "note"
          /\ noteEntries[j].tag = "beamed-note"
          /\ noteEntries[k].tag = "rest"
          /\ noteEntries[l].tag = "rest"
          /\ k # l

\* The instance a call leaves behind, as the next call finds it.
NextSelf(s) ==
    [s EXCEPT !.noteGroups = <<>>, !.restGroups = <<>>, !.error = "none",
              !.failedAt = 0, !.fills = <<>>, !.drawn = 0, !.created = 0,
              !.newBars = 0]

\* One call of the last call's operation with the single string token.
SingleCall(s, token) ==
    IF ret.op = "drawNote"
    THEN RhythmStaff_drawNote(s, [isArray |-> FALSE, value |-> token])
    ELSE drawRest(s, [isArray |-> FALSE, value |-> token])

\* The calls with tokens[i], tokens[i + 1], ... one after another from s,
\* up to and including the first one that throws.
RECURSIVE SingleCalls(_, _, _)
SingleCalls(s, tokens, i) ==
    IF i > Len(tokens) THEN s
    ELSE LET r == SingleCall(NextSelf(s), tokens[i])
         IN  IF r.error # "none" THEN r ELSE SingleCalls(r, tokens, i + 1)

IsBatchCall == IsTokenCall /\ ret.arg.isArray

(***************************************************************************)
(* C27: a drawNote or drawRest call with the batch [t1..tn] ends in the    *)
(* same currentBeatCount, cursor and entry list as the calls with t1, ..., *)
(* tn made one after another from the same state, up to the first call     *)
(* that fails; it fails exactly when one of those calls does, with the     *)
(* same error.                                                             *)
(***************************************************************************)
C27_BatchEqualsSequence ==
    IsBatchCall =>
        LET seq == SingleCalls(SelfBefore, ret.arg.value, 1)
        IN  /\ seq.beat = currentBeatCount
            /\ seq.cursor = noteCursorX
            /\ seq.entries = noteEntries
            /\ seq.error = ret.error

\* A batch that drew members, with filler rests, before one of its later
\* members failed.
C27_Witness ==
    /\ IsBatchCall
    /\ ret.failedAt > 2
    /\ Len(ret.fills) > 0
    /\ Len(noteEntries) > Len(ret.before.entries) + 2

\* The groups of the entry list, in its order.
EntryGroups ==
    IF IsRhythm THEN noteEntries
    ELSE [i \in DOMAIN noteEntries |-> noteEntries[i].gElement]

(***************************************************************************)
(* C28: after every operation of a RhythmStaff or a MusicStaff, returned   *)
(* or thrown, the groups of the entry list are exactly the children of the *)
(* notes layer, in the same order, filler rests included.                  *)
(***************************************************************************)
C28_EntriesMatchLayer ==
    (IsRhythm \/ staffKind = "music") => notesLayer = EntryGroups

\* A batch that made filler rests and then threw at a later member, on a
\* staff that already had entries.
C28_Witness ==
    /\ IsRhythm
    /\ IsBatchCall
    /\ ret.error # "none"
    /\ Len(ret.fills) > 0
    /\ Len(ret.before.entries) > 0
    /\ Len(noteEntries) > Len(ret.before.entries) + 1

\* The beam group the last call drew.
BeamGroupDrawn == noteEntries[Len(noteEntries)]

(***************************************************************************)
(* C29 as stated: a beam group drawn by a drawBeamedNotes call that        *)
(* returns contains at least two notes.                                    *)
(***************************************************************************)
C29_AsClaimed ==
    (IsBeamCall /\ ret.error = "none") => BeamGroupDrawn.heads >= 2

\* Every entry of the staff is a quarter note drawn by drawNote.
OnlyQuarterNotes ==
    \A i \in DOMAIN noteEntries :
        noteEntries[i].tag = "note" /\ noteEntries[i].glyph = "NOTE_HEAD_QUARTER"

(***************************************************************************)
(* C30: on a rhythm staff that holds quarter notes only, when the playhead *)
(* has been incremented k times since construction or the last reset and   *)
(* the k-th quarter note is drawn, the playhead's x, and the x attribute   *)
(* of its element, is the start x of the notes layer plus the x at which   *)
(* the k-th quarter note was drawn, bar gaps included.                     *)
(***************************************************************************)
C30_PlayheadAlignedWithNotes ==
    (IsRhythm /\ OnlyQuarterNotes /\ currentBeatUICount \in DOMAIN noteEntries) =>
        /\ currentBeatUIXPos
               = NOTE_LAYER_START_X * BeatUnit + noteEntries[currentBeatUICount].x
        /\ currentBeatUIElement.x = currentBeatUIXPos

\* A staff of two bars or more filled with quarter notes, the playhead on
\* the last note.
C30_Witness ==
    /\ IsRhythm
    /\ OnlyQuarterNotes
    /\ barsCount >= 2
    /\ currentBeatCount = maxBeatCount
    /\ currentBeatUICount = Len(noteEntries)
    /\ currentBeatUICount * BeatUnit = maxBeatCount
    /\ ret.op = "incrementCurrentBeatUI"

IsMusicCall(op) == staffKind = "music" /\ ret.op = op

\* The entries the last call appended.
NewEntryIndices == (Len(ret.before.entries) + 1)..Len(noteEntries)

\* The cursor as it was when entry j was appended by the last call.
CursorBeforeEntry(j) ==
    IF j = Len(ret.before.entries) + 1 THEN ret.before.cursor
    ELSE noteEntries[j - 1].xPos - noteEntries[j - 1].accidentalXOffset
             + NOTE_SPACING + noteEntries[j - 1].accidentalXOffset

\* Some member of the chord group was shifted by the close-note pass.
HasShiftedMember(group) == \E j \in DOMAIN group.members : group.members[j].x > 0

LastEntry == noteEntries[Len(noteEntries)]

(***************************************************************************)
(* C31: chord cursor bookkeeping.  Every entry a MusicStaff.drawNote call  *)
(* appends is recorded and placed at the cursor before it plus its         *)
(* accidental offset, and the cursor ends NOTE_SPACING plus that offset    *)
(* further.  A drawChord call that returns appends one entry recorded and  *)
(* placed at the previous cursor plus the chord's accidental offset, and   *)
(* advances the cursor by NOTE_SPACING plus the accidental offset plus the *)
(* cursor offset of renderChord, which is the close-note offset            *)
(* NOTE_SPACING / 2 when a member was shifted and 0 otherwise.             *)
(***************************************************************************)
C31_ChordCursorBookkeeping ==
    /\ IsMusicCall("drawNote") =>
           /\ Len(noteEntries) = Len(ret.before.entries) + ret.drawn
           /\ \A j \in NewEntryIndices :
                  /\ noteEntries[j].xPos
                         = CursorBeforeEntry(j) + noteEntries[j].accidentalXOffset
                  /\ noteEntries[j].gElement.x = noteEntries[j].xPos
           /\ noteCursorX = CursorBeforeEntry(Len(noteEntries) + 1)
    /\ (IsMusicCall("drawChord") /\ ret.error = "none") =>
           /\ Len(noteEntries) = Len(ret.before.entries) + 1
           /\ renderChord(ret.arg).cursorOffset
                  = (IF HasShiftedMember(LastEntry.gElement)
                     THEN NOTE_SPACING \div 2 ELSE 0)
           /\ renderChord(ret.arg).accidentalOffset = LastEntry.accidentalXOffset
           /\ LastEntry.xPos = ret.before.cursor + LastEntry.accidentalXOffset
           /\ LastEntry.gElement.x = LastEntry.xPos
           /\ noteCursorX = ret.before.cursor + NOTE_SPACING
                                + LastEntry.accidentalXOffset
                                + renderChord(ret.arg).cursorOffset

\* A chord with an accidental offset and a shifted member, drawn after
\* another entry.
C31_Witness ==
    /\ IsMusicCall("drawChord")
    /\ ret.error = "none"
    /\ Len(ret.before.entries) > 0
    /\ LastEntry.accidentalXOffset # 0
    /\ HasShiftedMember(LastEntry.gElement)

\* The last call was a change operation of MusicStaff that returned.
IsChange ==
    /\ staffKind = "music"
    /\ ret.op \in {"changeNoteByIndex", "changeChordByIndex"}
    /\ ret.error = "none"

\* Place in the entry list (from 1) of the entry the last call addressed.
ChangedAt == ret.count + 1

NormalizedXPos(entry) == entry.xPos - entry.accidentalXOffset

\* The last call's operation with another argument, on the same index.
ChangeAgain(s, arg) ==
    IF ret.op = "changeNoteByIndex" THEN changeNoteByIndex(NextSelf(s), arg, ret.count)
    ELSE changeChordByIndex(NextSelf(s), arg, ret.count)

ChangeArguments ==
    IF ret.op = "changeNoteByIndex" THEN NoteStrings ELSE IndexChordArguments

(***************************************************************************)
(* C32: a changeNoteByIndex or changeChordByIndex call that returns        *)
(* replaces entry i only.  The entry count, the cursor, every other entry  *)
(* and every other child of the notes layer are as before; the replaced    *)
(* entry keeps its normalized position xPos - accidentalXOffset; and       *)
(* changing the entry to any A, then to the last call's argument, then to  *)
(* A again gives the xPos the first change to A gave.                      *)
(***************************************************************************)
C32_IndexMutationFrame ==
    IsChange =>
        /\ Len(noteEntries) = Len(ret.before.entries)
        /\ Len(notesLayer) = Len(ret.before.layer)
        /\ noteCursorX = ret.before.cursor
        /\ ChangedAt \in DOMAIN noteEntries
        /\ \A j \in DOMAIN noteEntries :
              j # ChangedAt =>
                  /\ noteEntries[j] = ret.before.entries[j]
                  /\ notesLayer[j] = ret.before.layer[j]
        /\ NormalizedXPos(noteEntries[ChangedAt])
               = NormalizedXPos(ret.before.entries[ChangedAt])
        /\ \A a \in ChangeArguments :
              LET toA == ChangeAgain(Self, a)
                  toB == ChangeAgain(toA, ret.arg)
                  back == ChangeAgain(toB, a)
              IN  toA.error = "none" =>
                      /\ toB.error = "none"
                      /\ back.error = "none"
                      /\ toB.entries[ChangedAt].xPos = noteEntries[ChangedAt].xPos
                      /\ back.entries[ChangedAt].xPos = toA.entries[ChangedAt].xPos

\* The second of two entries was changed, from an entry with an accidental
\* offset to one without or the reverse.
C32_Witness ==
    /\ IsChange
    /\ ChangedAt = 2
    /\ noteEntries[ChangedAt].accidentalXOffset
           # ret.before.entries[ChangedAt].accidentalXOffset
    /\ noteEntries[1].accidentalXOffset # 0

\* The last call was a drawChord or an index operation of MusicStaff given a
\* malformed token.
MalformedGiven ==
    /\ staffKind = "music"
    /\ \/ ret.op = "changeNoteByIndex" /\ ~parseNoteString(ret.arg).ok
       \/ /\ ret.op \in {"drawChord", "changeChordByIndex"}
          /\ \E j \in DOMAIN ret.arg : ~parseNoteString(ret.arg[j]).ok

(***************************************************************************)
(* C33 as stated: drawChord, changeChordByIndex or changeNoteByIndex given *)
(* a malformed token fails with ParseError and leaves the entry list, the  *)
(* notes layer and the cursor as they were.                                *)
(***************************************************************************)
C33_AsClaimed == MalformedGiven => (ret.error = "ParseError" /\ LayoutUnchanged)

\* The last call addressed an index at or past the end of the entry list.
IndexPastEnd ==
    /\ ret.op \in {"changeNoteByIndex", "changeChordByIndex"}
    /\ ret.count >= Len(ret.before.entries)

ChordTooShort == ret.op \in {"drawChord", "changeChordByIndex"} /\ Len(ret.arg) < 2

(***************************************************************************)
(* C33, amended: drawChord, changeChordByIndex or changeNoteByIndex given  *)
(* a malformed token fails and leaves the entry list, the notes layer and  *)
(* the cursor as they were.  The failure is BoundsError when the index is  *)
(* at or past the end of the list, otherwise StateError when a chord has   *)
(* fewer than two members, and ParseError in every other case.             *)
(***************************************************************************)
C33_MalformedIsAtomic ==
    MalformedGiven =>
        /\ LayoutUnchanged
        /\ ret.error = (IF IndexPastEnd THEN "BoundsError"
                        ELSE IF ChordTooShort THEN "StateError"
                        ELSE "ParseError")

\* changeChordByIndex on an existing entry with a chord whose second member
\* is malformed.
C33_Witness ==
    /\ MalformedGiven
    /\ ret.op = "changeChordByIndex"
    /\ Len(ret.arg) >= 2
    /\ Len(ret.before.entries) = MaxEntries
    /\ ret.error = "ParseError"
    /\ ret.created > 1

IsScrolling == staffKind = "scrolling"

\* Place in ret.queued of the j-th active entry.
QueuePlace(j) == ret.scrolledOff + j

(***************************************************************************)
(* C34: ScrollingStaff is a FIFO with conservation.  The entries queued    *)
(* since the last clearAllNotes are, in queue order, those scrolled off,   *)
(* then the active list, then the pending buffer: the active entries are   *)
(* the renderings of a contiguous run of the queue, in its order, the      *)
(* buffer is the rest of the queue, and the notes layer holds each active  *)
(* entry's wrapper once, in the same order.                                *)
(***************************************************************************)
C34_FifoConservation ==
    IsScrolling =>
        /\ ret.scrolledOff + Len(noteEntries) + Len(noteBuffer) = Len(ret.queued)
        /\ noteBuffer = SubSeq(ret.queued, ret.scrolledOff + Len(noteEntries) + 1,
                               Len(ret.queued))
        /\ \A j \in DOMAIN noteEntries :
              noteEntries[j].noteWrapper.child
                  = renderBuffered(ret.queued[QueuePlace(j)]).noteGroup
        /\ notesLayer = [j \in DOMAIN noteEntries |-> noteEntries[j].noteWrapper]

\* An advanceNotes that took one entry off a staff of several and rendered
\* the one that was pending.
C34_Witness ==
    /\ IsScrolling
    /\ ret.op = "advanceNotes"
    /\ ret.scrolledOff >= 1
    /\ Len(noteEntries) >= 2
    /\ Len(ret.before.buffer) >= 1
    /\ ret.rendered = 1

(***************************************************************************)
(* C35 as stated: the x positions of the active entries of a ScrollingStaff *)
(* are strictly increasing in queue order, so no two active entries share  *)
(* an x position.                                                          *)
(***************************************************************************)
C35_AsClaimed ==
    IsScrolling =>
        \A j \in 1..(Len(noteEntries) - 1) :
            noteEntries[j].xPos < noteEntries[j + 1].xPos

\* Nothing is pending and nothing is on the staff.
Drained == noteBuffer = <<>> /\ noteEntries = <<>>

(***************************************************************************)
(* C36 as stated: once queueNotes is no longer called, the queued tokens   *)
(* being well-formed, repeated advanceNotes calls render every buffered    *)
(* entry and empty the active list: from some call on the buffer and the   *)
(* active list are both empty.                                             *)
(***************************************************************************)
C36_AsClaimed == <>[]Drained

====
